---- MODULE Spec2Model ----
(***************************************************************************)
(* A model of the protocol-session layer (src/src/lsp.rs) and of the call  *)
(* resolver built on it (src/src/integration.rs).                          *)
(*                                                                         *)
(* Two layers are modelled:                                                *)
(*   - the message layer: the session (LspServer), its request-id counter, *)
(*     the ordered stream of messages written to the server's stdin, the   *)
(*     ordered stream of frames the server wrote to its stdout, and the    *)
(*     code that owns the session: find_all_call_targets, or a caller of   *)
(*     start_and_init that then uses the public operations in any order;   *)
(*   - the byte layer: request_string and read_response over a stream of   *)
(*     bytes (specification SpecFrame).                                    *)
(***************************************************************************)
EXTENDS Integers, Sequences, FiniteSets, TLC

\* ------------------------------------------------------------------ bounds
\* Number of unsolicited frames (notifications, server requests, frames that
\* do not decode) the server may write during one session.
MaxNoise == 1
\* Number of public operations a caller of start_and_init performs.
MaxOps == 2
\* Number of files discovery returns, and of call sites in all of them.
MaxFiles == 2
MaxSites == 2
\* Length, in characters, of the text a framed message carries.
MaxText == 1

VARIABLES
  entry,      \* which code runs: find_all_call_targets ("resolver"), a caller
              \* of start_and_init ("session") or of start ("owner"),
              \* read_response alone ("frame"), process_files of
              \* find-references ("references"),
              \* extract_call_hierachy_for_files ("hierarchy")
  nfiles,     \* find_all_call_targets: matching_files.len()
  cur,        \* find_all_call_targets: the file of the current iteration
  nsites,     \* call sites get_calls has yielded so far, over all files
  pc,         \* position of the owning code
  process,    \* the Child: its state, and the calls made on it (see NoChild)
  next_id,    \* LspServer.next_id
  stdin,      \* messages written to the server's stdin, in order
  stdout,     \* the frame the client reads next, when it is there
  broken,     \* the server reads its stdin no more (it exited, or was killed)
  closed,     \* the client has been handed all the server wrote: end-of-file
  noise,      \* unsolicited frames written so far
  responded,  \* positions in stdin of the requests the server has answered
  wait_id,    \* expected_id of the running read_response_with_id call
  skipped,    \* messages the running read_response_with_id call skipped
  answered,   \* positions in stdin of the requests whose response
              \* read_response_with_id has returned to its caller
  last,       \* what the latest request / read_response_with_id returned
  fileIdx,    \* find_all_call_targets: index of the current file
  callIdx,    \* find_all_call_targets: index of the current call site
  results,    \* find_all_call_targets: the results vector
  ret,        \* what the owning code returned: "none" | "ok" | "err"
  ops,        \* public operations performed by the caller of start_and_init
  log,        \* indices of the files a diagnostic about skipping was written for
  attempt,    \* process_files: attempt; prepare_call_hierarchy: retries
  slept,      \* the delays (ms) slept between the attempts for the current symbol
  \* the byte layer
  value,      \* the structured message that was framed
  scenario,   \* what became of the frame on its way to the reader
  bytes,      \* self.stdout: the bytes the reader has yet to read, to end-of-file
  trailing,   \* the bytes that follow the frame in the stream
  rpc,        \* position of read_response: "idle" | "header" | "content" | "done"
  content_length, \* read_response: content_length
  buffer,     \* read_response: buffer, after read_exact
  avail,      \* bytes that were left in the stream when read_exact was called
  returned,   \* what read_response returned
  iter,       \* parity of the number of iterations of the header loop
  \* the syntax tree and its walkers
  tree,       \* the Tree that parse_file returned
  walk,       \* the CallIterator of get_calls and what was collected from it
  again,      \* the same, for a second get_calls on the tree
  sent,       \* the positions sent in the definition queries for the calls
  stderr      \* the pipe of the server's stderr, its writer and its reader thread

vars == <<entry, nfiles, cur, nsites, pc, process, next_id, stdin, stdout, broken, closed, noise,
          responded, wait_id, skipped, answered, last, fileIdx, callIdx, results, ret, ops,
          log, attempt, slept,
          value, scenario, bytes, trailing, rpc, content_length, buffer, avail, returned, iter,
          tree, walk, again, sent, stderr>>

\* ------------------------------------------------------- structured values
\* The "id" member of a message: absent, an unsigned integer, or a value
\* for which serde_json's as_u64 gives None (a string, a negative number).
NoId == [k |-> "absent", v |-> 0]
U64Id(n) == [k |-> "u64", v |-> n]
OtherId == [k |-> "other", v |-> 0]

\* The "result" member: absent, null, the capabilities object of an
\* InitializeResult, a definition (the location the server resolved for the
\* query about call site s of file f), or a value of no expected shape.
NoResult == [k |-> "absent", f |-> 0, s |-> 0]
NullResult == [k |-> "null", f |-> 0, s |-> 0]
CapsResult == [k |-> "caps", f |-> 0, s |-> 0]
DefResult(f, s) == [k |-> "def", f |-> f, s |-> s]
JunkResult == [k |-> "junk", f |-> 0, s |-> 0]

\* The "error" member: absent, or an object whose "code" and "message"
\* members may be missing (hasCode / hasMsg).
NoError == [k |-> "absent", hasCode |-> FALSE, code |-> 0, hasMsg |-> FALSE, msg |-> ""]
ErrorObj(hc, c, hm, m) == [k |-> "obj", hasCode |-> hc, code |-> c, hasMsg |-> hm, msg |-> m]

\* A frame on the server's stdout. t = "msg": a frame that decodes to a
\* structured value; t = "bad": a complete frame whose payload does not
\* decode; t = "trunc": a frame whose payload is cut short by end-of-file.
\* re is history, not payload: the position in stdin of the request the
\* server answers with this message (0: the message answers no request).
Msg(id, method, result, error, re) ==
  [t |-> "msg", id |-> id, method |-> method, result |-> result, error |-> error, re |-> re]
BadFrame ==
  [t |-> "bad", id |-> NoId, method |-> "", result |-> NoResult, error |-> NoError, re |-> 0]
TruncFrame ==
  [t |-> "trunc", id |-> NoId, method |-> "", result |-> NoResult, error |-> NoError, re |-> 0]

\* A message written to the server's stdin.
Request(id, method, f, s) == [kind |-> "request", id |-> id, method |-> method, f |-> f, s |-> s]
Notification(method, f) == [kind |-> "notification", id |-> 0, method |-> method, f |-> f, s |-> 0]

\* What request / read_response_with_id handed back to its caller. resp is the
\* message read_response_with_id returned; for a transport error, the frame
\* read_response failed on; BadFrame when nothing was read.
NoOutcome ==
  [k |-> "none", why |-> "", code |-> 0, msg |-> "", result |-> NoResult, resp |-> BadFrame]
Ok(result, resp) ==
  [k |-> "ok", why |-> "", code |-> 0, msg |-> "", result |-> result, resp |-> resp]
Err(why, resp) ==
  [k |-> "err", why |-> why, code |-> 0, msg |-> "", result |-> NoResult, resp |-> resp]
LspErr(code, msg, resp) ==
  [k |-> "err", why |-> "lsp", code |-> code, msg |-> msg, result |-> NoResult, resp |-> resp]
Returned(resp) ==
  [k |-> "message", why |-> "", code |-> 0, msg |-> "", result |-> NoResult, resp |-> resp]

\* ---------------------------------------------------------------- inputs
\* A file discovery returned: "ok" (readable, parses, calls call sites),
\* "unreadable", "unparseable", or "space" (its path holds a literal space,
\* so that "file://<path>" does not parse as a URI).
FileDescs ==
  {[kind |-> k, calls |-> 0] : k \in {"unreadable", "unparseable", "space"}}
    \cup {[kind |-> "ok", calls |-> n] : n \in 0..MaxSites}
NoFile == [kind |-> "none", calls |-> 0]

\* ------------------------------------------------- the session, pure parts
\* LspServer::read_response seen from the message layer: a frame that decodes
\* gives Ok(value); a frame that does not, or that end-of-file cuts short in
\* its payload, gives Err. (The byte layer is SpecFrame below.)
read_response(frame) == [ok |-> frame.t = "msg", value |-> frame]

\* A read loop that takes any message carrying an id for the response.
IdMatches_AnyId(id, expected_id) == TRUE
\* A read loop that takes a response to an earlier request as well.
IdMatches_Stale(id, expected_id) == id.k = "u64" /\ id.v <= expected_id

\* lsp.rs:189, `id.as_u64() == Some(expected_id)`.
IdMatches(id, expected_id) == id.k = "u64" /\ id.v = expected_id

\* One iteration of the loop of LspServer::read_response_with_id on the frame
\* at the head of the stream: "err" (the `?`), "return" or "continue".
read_response_with_id(frame, expected_id) ==
  LET r == read_response(frame) IN
  IF ~r.ok THEN "err"
  ELSE IF r.value.id.k # "absent" /\ IdMatches(r.value.id, expected_id) THEN "return"
  ELSE "continue"

\* A result type that does not take null.
Deserializes_NoNull(method, result) ==
  IF method = "initialize" THEN result.k = "caps" ELSE result.k = "def"

\* from_value::<R::Result>: an InitializeResult needs its capabilities object;
\* Option<GotoDefinitionResponse> takes null (None) or locations (Some).
Deserializes(method, result) ==
  IF method = "initialize" THEN result.k = "caps" ELSE result.k \in {"null", "def"}

\* A request that reports every protocol error with the default code.
request_result_NoCode(method, response) ==
  IF response.error.k # "absent" THEN
    LspErr(-1, IF response.error.hasMsg THEN response.error.msg ELSE "Unknown error",
           response)
  ELSE IF response.result.k = "absent" THEN Err("missing_result", response)
  ELSE IF ~Deserializes(method, response.result) THEN Err("deserialize", response)
  ELSE Ok(response.result, response)

\* LspServer::request after the response is in hand (lsp.rs:206-227).
request_result(method, response) ==
  IF response.error.k # "absent" THEN
    LspErr(IF response.error.hasCode THEN response.error.code ELSE -1,
           IF response.error.hasMsg THEN response.error.msg ELSE "Unknown error",
           response)
  ELSE IF response.result.k = "absent" THEN Err("missing_result", response)
  ELSE IF ~Deserializes(method, response.result) THEN Err("deserialize", response)
  ELSE Ok(response.result, response)

\* write_all + flush on the child's stdin succeed while the child reads it.
WriteOk == ~broken
\* read_line sees end-of-file: nothing is left to read and the write end of
\* the pipe is closed.
AtEof == stdout = <<>> /\ closed

\* The first id LspServer::start gives the session (lsp.rs:329).
FirstId == 1

\* ============================================================ byte layer
\* A character is a string: an ASCII character as itself, "U+E9" for the
\* character e-acute. A byte is a string: an ASCII byte as its character,
\* "xC3" and "xA9" for the two bytes of e-acute in UTF-8.
Alphabet == {"a", "\"", "U+E9"}
Texts == UNION {[1..k -> Alphabet] : k \in 0..MaxText}

\* serde_json::Value: null, an unsigned number, a string, an object (its
\* members in key order, as serde_json's map keeps them).
Null == [t |-> "null", n |-> 0, s |-> <<>>, o |-> <<>>]
Num(n) == [t |-> "num", n |-> n, s |-> <<>>, o |-> <<>>]
Str(s) == [t |-> "str", n |-> 0, s |-> s, o |-> <<>>]
Obj(o) == [t |-> "obj", n |-> 0, s |-> <<>>, o |-> o]
Member(key, val) == [key |-> key, val |-> val]

\* The json! of send_request_with_id (lsp.rs:84-89).
request_json(id, method, params) ==
  Obj(<<Member(<<"i", "d">>, Num(id)),
        Member(<<"j", "s", "o", "n", "r", "p", "c">>, Str(<<"2", ".", "0">>)),
        Member(<<"m", "e", "t", "h", "o", "d">>, Str(method)),
        Member(<<"p", "a", "r", "a", "m", "s">>, params)>>)

\* The json! of send_notification (lsp.rs:103-107).
notification_json(method, params) ==
  Obj(<<Member(<<"j", "s", "o", "n", "r", "p", "c">>, Str(<<"2", ".", "0">>)),
        Member(<<"m", "e", "t", "h", "o", "d">>, Str(method)),
        Member(<<"p", "a", "r", "a", "m", "s">>, params)>>)

\* The messages that are framed: requests and notifications whose params
\* carry a text, and bare numbers (request_string takes any Serialize).
Values ==
  {request_json(id, <<"i", "n", "i", "t">>, Obj(<<Member(<<"t">>, Str(text))>>)) :
     id \in {1, 12}, text \in Texts}
    \cup {notification_json(<<"e", "x", "i", "t">>, Str(text)) : text \in Texts}
    \cup {Num(7), Num(12), Null}

\* ---- String::as_bytes
RECURSIVE as_bytes(_)
as_bytes(s) ==
  IF s = <<>> THEN <<>>
  ELSE (IF Head(s) = "U+E9" THEN <<"xC3", "xA9">> ELSE <<Head(s)>>) \o as_bytes(Tail(s))

\* String::from_utf8: "xC3" must be followed by "xA9", and "xA9" must follow
\* "xC3"; the two bytes are one character.
from_utf8(b) ==
  LET wellFormed ==
        \A i \in 1..Len(b) :
          /\ b[i] = "xC3" => (i < Len(b) /\ b[i + 1] = "xA9")
          /\ b[i] = "xA9" => (i > 1 /\ b[i - 1] = "xC3")
      lead == SelectSeq(b, LAMBDA x : x # "xA9")
  IN IF wellFormed
       THEN [ok |-> TRUE,
             s |-> [i \in 1..Len(lead) |-> IF lead[i] = "xC3" THEN "U+E9" ELSE lead[i]]]
       ELSE [ok |-> FALSE, s |-> <<>>]

\* ---- decimal numbers: the {} of format!, str::parse::<usize>
Digits == <<"0", "1", "2", "3", "4", "5", "6", "7", "8", "9">>
IsDigit(c) == \E d \in 1..10 : Digits[d] = c
DigitValue(c) == (CHOOSE d \in 1..10 : Digits[d] = c) - 1

RECURSIVE ToDecimal(_)
ToDecimal(n) ==
  IF n < 10 THEN <<Digits[n + 1]>> ELSE Append(ToDecimal(n \div 10), Digits[(n % 10) + 1])

RECURSIVE DecimalValue(_, _)
DecimalValue(s, acc) ==
  IF s = <<>> THEN acc ELSE DecimalValue(Tail(s), 10 * acc + DigitValue(Head(s)))

\* str::parse::<usize>: an optional "+", then one digit or more.
parse_usize(s) ==
  LET digits == IF s # <<>> /\ Head(s) = "+" THEN Tail(s) ELSE s IN
  IF digits # <<>> /\ \A i \in 1..Len(digits) : IsDigit(digits[i])
    THEN [ok |-> TRUE, n |-> DecimalValue(digits, 0)]
    ELSE [ok |-> FALSE, n |-> 0]

\* ---- serde_json::to_string
RECURSIVE Escape(_)
Escape(s) ==
  IF s = <<>> THEN <<>>
  ELSE (IF Head(s) \in {"\"", "\\"} THEN <<"\\", Head(s)>> ELSE <<Head(s)>>) \o Escape(Tail(s))

Quote(s) == <<"\"">> \o Escape(s) \o <<"\"">>

RECURSIVE to_string(_)
RECURSIVE MembersString(_)
MembersString(o) ==
  IF o = <<>> THEN <<>>
  ELSE Quote(Head(o).key) \o <<":">> \o to_string(Head(o).val)
         \o (IF Len(o) > 1 THEN <<",">> \o MembersString(Tail(o)) ELSE <<>>)

to_string(v) ==
  CASE v.t = "null" -> <<"n", "u", "l", "l">>
    [] v.t = "num" -> ToDecimal(v.n)
    [] v.t = "str" -> Quote(v.s)
    [] v.t = "obj" -> <<"{">> \o MembersString(v.o) \o <<"}">>

\* ---- serde_json::from_str, for the JSON to_string writes: no whitespace
\* between tokens, the escapes \" and \\. A parse gives [ok, v, next]: the
\* value and the position after it.
ParseFail == [ok |-> FALSE, v |-> Null, next |-> 0]

RECURSIVE ParseDigits(_, _)
ParseDigits(s, i) == IF i <= Len(s) /\ IsDigit(s[i]) THEN ParseDigits(s, i + 1) ELSE i

\* A number: "0", or a digit that is not 0 and the digits after it.
ParseNumber(s, i) ==
  LET e == IF s[i] = "0" THEN i + 1 ELSE ParseDigits(s, i) IN
  [ok |-> TRUE, v |-> Num(DecimalValue(SubSeq(s, i, e - 1), 0)), next |-> e]

\* The characters of a string whose opening quote is before position i.
RECURSIVE ParseChars(_, _, _)
ParseChars(s, i, acc) ==
  IF i > Len(s) THEN ParseFail
  ELSE IF s[i] = "\"" THEN [ok |-> TRUE, v |-> Str(acc), next |-> i + 1]
  ELSE IF s[i] = "\\" THEN
    IF i + 1 <= Len(s) /\ s[i + 1] \in {"\"", "\\"}
      THEN ParseChars(s, i + 2, Append(acc, s[i + 1]))
      ELSE ParseFail
  ELSE ParseChars(s, i + 1, Append(acc, s[i]))

RECURSIVE ParseValue(_, _)
RECURSIVE ParseMembers(_, _, _)
\* The members of an object, the first starting at position i.
ParseMembers(s, i, acc) ==
  IF i > Len(s) \/ s[i] # "\"" THEN ParseFail
  ELSE
    LET key == ParseChars(s, i + 1, <<>>) IN
    IF ~key.ok \/ key.next > Len(s) \/ s[key.next] # ":" THEN ParseFail
    ELSE
      LET val == ParseValue(s, key.next + 1) IN
      IF ~val.ok \/ val.next > Len(s) THEN ParseFail
      ELSE
        LET members == Append(acc, Member(key.v.s, val.v)) IN
        IF s[val.next] = "}" THEN [ok |-> TRUE, v |-> Obj(members), next |-> val.next + 1]
        ELSE IF s[val.next] = "," THEN ParseMembers(s, val.next + 1, members)
        ELSE ParseFail

ParseValue(s, i) ==
  IF i > Len(s) THEN ParseFail
  ELSE IF s[i] = "n" THEN
    IF i + 3 <= Len(s) /\ SubSeq(s, i, i + 3) = <<"n", "u", "l", "l">>
      THEN [ok |-> TRUE, v |-> Null, next |-> i + 4]
      ELSE ParseFail
  ELSE IF IsDigit(s[i]) THEN ParseNumber(s, i)
  ELSE IF s[i] = "\"" THEN ParseChars(s, i + 1, <<>>)
  ELSE IF s[i] = "{" THEN
    IF i + 1 <= Len(s) /\ s[i + 1] = "}"
      THEN [ok |-> TRUE, v |-> Obj(<<>>), next |-> i + 2]
      ELSE ParseMembers(s, i + 1, <<>>)
  ELSE ParseFail

\* One value, and nothing after it.
from_str(s) ==
  LET r == ParseValue(s, 1) IN
  IF r.ok /\ r.next = Len(s) + 1 THEN [ok |-> TRUE, v |-> r.v] ELSE [ok |-> FALSE, v |-> Null]

\* ---- request_string
ContentLengthPrefix ==
  <<"C", "o", "n", "t", "e", "n", "t", "-", "L", "e", "n", "g", "t", "h", ":", " ">>
CRLF == <<"\r", "\n">>

\* A request_string that declares the payload's length in characters.
request_string_CharLen(request) ==
  LET request_str == to_string(request) IN
  as_bytes(ContentLengthPrefix \o ToDecimal(Len(request_str)) \o CRLF \o CRLF \o request_str)

\* request_string (lsp.rs:34-41), and the as_bytes of the write (lsp.rs:95):
\* String::len is the length in bytes.
request_string(request) ==
  LET request_str == to_string(request) IN
  as_bytes(ContentLengthPrefix \o ToDecimal(Len(as_bytes(request_str))) \o CRLF \o CRLF
             \o request_str)

\* ---- read_response, its parts
\* BufRead::read_line: the bytes up to and including the next "\n", or all
\* that is left when end-of-file comes first (nothing, at end-of-file).
RECURSIVE LineEnd(_, _)
LineEnd(b, i) == IF i > Len(b) THEN Len(b) ELSE IF b[i] = "\n" THEN i ELSE LineEnd(b, i + 1)

read_line(b) ==
  LET e == LineEnd(b, 1) IN [line |-> SubSeq(b, 1, e), rest |-> SubSeq(b, e + 1, Len(b))]

\* str::strip_prefix.
strip_prefix(s, prefix) ==
  IF Len(s) >= Len(prefix) /\ SubSeq(s, 1, Len(prefix)) = prefix
    THEN [some |-> TRUE, rest |-> SubSeq(s, Len(prefix) + 1, Len(s))]
    ELSE [some |-> FALSE, rest |-> <<>>]

\* str::trim.
WhiteSpace == {" ", "\t", "\r", "\n"}
RECURSIVE trim_start(_)
trim_start(s) == IF s # <<>> /\ Head(s) \in WhiteSpace THEN trim_start(Tail(s)) ELSE s
RECURSIVE trim_end(_)
trim_end(s) ==
  IF s # <<>> /\ s[Len(s)] \in WhiteSpace THEN trim_end(SubSeq(s, 1, Len(s) - 1)) ELSE s
trim(s) == trim_end(trim_start(s))

\* A read that returns what there is when end-of-file comes early.
read_exact_Short(b, n) ==
  LET m == IF Len(b) < n THEN Len(b) ELSE n IN
  [ok |-> TRUE, buf |-> SubSeq(b, 1, m), rest |-> SubSeq(b, m + 1, Len(b))]

\* A read that hands over n bytes and loses what the reader had buffered
\* behind them.
read_exact_Greedy(b, n) ==
  IF Len(b) < n THEN [ok |-> FALSE, buf |-> <<>>, rest |-> <<>>]
  ELSE [ok |-> TRUE, buf |-> SubSeq(b, 1, n), rest |-> <<>>]

\* Read::read_exact (lsp.rs:172): n bytes, or UnexpectedEof.
read_exact(b, n) ==
  IF Len(b) < n THEN [ok |-> FALSE, buf |-> <<>>, rest |-> <<>>]
  ELSE [ok |-> TRUE, buf |-> SubSeq(b, 1, n), rest |-> SubSeq(b, n + 1, Len(b))]

\* What read_response returns.
NoResponse == [k |-> "none", why |-> "", v |-> Null]
OkValue(v) == [k |-> "ok", why |-> "", v |-> v]
Error(why) == [k |-> "err", why |-> why, v |-> Null]

\* ---- the streams read_response is run on
\* What the reader is given for a frame of v: the frame and the bytes after
\* it ("whole"); the frame with a header line of another field before or
\* after its Content-Length line, and the bytes after it ("extra");
\* a prefix of the frame, then end-of-file ("cut": in the header block, or
\* in the payload); a frame whose length is no number ("bad_length"), whose
\* payload is no UTF-8 ("bad_utf8") or no JSON ("bad_json").
Streams(v) ==
  LET frame == request_string(v)
      stream(name, b, after) == [scenario |-> name, bytes |-> b, trailing |-> after]
      other == <<"X", ":", " ", "y">> \o CRLF
      first == LineEnd(frame, 1)
      Afters == {<<>>, request_string(Num(7))}
  IN {stream("whole", frame \o after, after) : after \in Afters}
       \cup {stream("extra", other \o frame \o after, after) : after \in Afters}
       \cup {stream("extra", SubSeq(frame, 1, first) \o other
                               \o SubSeq(frame, first + 1, Len(frame)) \o after, after) :
               after \in Afters}
       \cup {stream("cut", SubSeq(frame, 1, k), <<>>) : k \in 0..(Len(frame) - 1)}
       \cup {stream("bad_length", ContentLengthPrefix \o <<"x">> \o CRLF \o CRLF \o <<"1">>,
                    <<>>),
             stream("bad_utf8", ContentLengthPrefix \o <<"1">> \o CRLF \o CRLF \o <<"xC3">>,
                    <<>>),
             stream("bad_json", ContentLengthPrefix \o <<"1">> \o CRLF \o CRLF \o <<"{">>,
                    <<>>)}

\* The stderr of a server that was not spawned. pipe: the lines written
\* and not yet read; writer: the server's end; reader: the thread that
\* start spawns; lines: the lines written so far; logged: the lines the
\* thread has logged.
NoPipe == [pipe |-> <<>>, writer |-> "none", reader |-> "none", lines |-> 0, logged |-> 0]

\* No tree was parsed and no walker made.
NoTree == [parent |-> <<>>, kind |-> <<>>]
NoWalk == [cursor |-> 0, visited_root |-> FALSE, calls |-> <<>>, done |-> FALSE]
WalkIdle == tree = NoTree /\ walk = NoWalk /\ again = NoWalk /\ sent = <<>>

\* No read_response is running on the byte layer.
FrameIdle ==
  /\ value = Null /\ scenario = "none" /\ bytes = <<>> /\ trailing = <<>>
  /\ rpc = "idle" /\ content_length = 0 /\ buffer = <<>> /\ avail = 0
  /\ returned = NoResponse /\ iter = 0

\* ------------------------------------------------------- the child process
\* process, the Child of the session (lsp.rs:14, 294-298). state: "none"
\* before the spawn, "running" from the spawn on, "reaped" once wait has
\* returned its exit status. spawns counts the processes spawned, kills and
\* waits the calls of kill and of wait made on the Child, stops the calls of
\* LspServer::stop.
\* killable: whether process.kill() on this Child returns Ok.
NoChild ==
  [state |-> "none", spawns |-> 0, kills |-> 0, waits |-> 0, stops |-> 0, killable |-> TRUE]
\* Command::spawn succeeded (lsp.rs:294-298).
spawned(p) == [p EXCEPT !.state = "running", !.spawns = @ + 1]

\* The Child after LspServer::stop (lsp.rs:231-250): process.kill() and, as
\* it returned Ok, process.wait(). Nothing in LspServer records that the
\* session was stopped before: both calls are made on every stop. When
\* kill returns Err, stop logs it and returns Err without calling wait
\* (lsp.rs:245-248).
stopped(p) ==
  IF p.killable
    THEN [state |-> "reaped", spawns |-> p.spawns, kills |-> p.kills + 1, waits |-> p.waits + 1,
          stops |-> p.stops + 1, killable |-> TRUE]
    ELSE [p EXCEPT !.kills = @ + 1, !.stops = @ + 1]

\* A function that returns without running Drop on its session.
Leave_NoDrop(r) == UNCHANGED <<process, broken>> /\ ret' = r /\ pc' = "returned"

\* A function whose Drop lets the error of stop replace what it returns.
Leave_StopError(r) ==
  /\ process' = stopped(process) /\ broken' = TRUE /\ pc' = "returned"
  /\ ret' = IF process.killable THEN r ELSE "stop_err"

\* ------------------------------------------------------------------ Init
\* The message layer before anything ran.
InitMsg ==
  /\ cur = NoFile
  /\ nsites = 0
  /\ pc = CASE entry \in {"resolver", "references"} -> "begin"
             [] entry \in {"session", "owner", "hierarchy"} -> "start"
             [] entry = "walker" -> "walk"
             [] OTHER -> "read_response"
  /\ process = NoChild
  /\ next_id = 0
  /\ stdin = <<>>
  /\ stdout = <<>>
  /\ broken = FALSE
  /\ closed = FALSE
  /\ noise = 0
  /\ responded = {}
  /\ wait_id = 0
  /\ skipped = <<>>
  /\ answered = {}
  /\ last = NoOutcome
  /\ fileIdx = 1
  /\ callIdx = 1
  /\ results = <<>>
  /\ ret = "none"
  /\ ops = 0
  /\ log = {}
  /\ attempt = 0
  /\ slept = <<>>
  /\ stderr = NoPipe

InitAll ==
  /\ entry \in {"resolver", "session"}
  /\ nfiles \in 0..MaxFiles
  /\ (entry = "session" => nfiles = 0)
  /\ InitMsg
  /\ FrameIdle
  /\ WalkIdle

\* find_all_call_targets is called.
Init == InitAll /\ entry = "resolver"
\* start_and_init is called; its caller then uses the session.
InitSession == InitAll /\ entry = "session"
\* LspServer::start is called; its caller then uses the session.
InitOwner == entry = "owner" /\ nfiles = 0 /\ InitMsg /\ FrameIdle /\ WalkIdle
\* process_files of find-references, or extract_call_hierachy_for_files, is
\* called.
InitBatch ==
  /\ entry \in {"references", "hierarchy"}
  /\ nfiles \in 0..MaxFiles
  /\ InitMsg
  /\ FrameIdle
  /\ WalkIdle

frameVars == <<value, scenario, bytes, trailing, rpc, content_length, buffer, avail, returned,
               iter>>
walkVars == <<tree, walk, again, sent>>
inputVars == <<entry, nfiles, frameVars, walkVars, stderr>>
serverVars == <<stdout, closed, noise, responded>>
readVars == <<wait_id, skipped, answered, last>>
loopVars == <<cur, nsites, fileIdx, callIdx, results>>
batchVars == <<log, attempt, slept>>

\* Leaving the function with the session in scope: Drop for LspServer runs
\* stop (lsp.rs:372-378).
Leave(r) == process' = stopped(process) /\ broken' = TRUE /\ ret' = r /\ pc' = "returned"

\* ------------------------------------------ start and the handshake
\* An orchestrator that starts the server whatever discovery returned.
FindFiles_StartAnyway ==
  /\ pc = "begin"
  /\ ret' = ret /\ pc' = "start"
  /\ UNCHANGED <<inputVars, batchVars, process, next_id, stdin, broken, serverVars, readVars, loopVars,
                 ops>>

\* find_all_call_targets, integration.rs:104-113.
FindFiles ==
  /\ pc = "begin"
  /\ IF nfiles = 0 THEN ret' = "ok" /\ pc' = "returned"
                     ELSE ret' = ret /\ pc' = "start"
  /\ UNCHANGED <<inputVars, batchVars, process, next_id, stdin, broken, serverVars, readVars, loopVars,
                 ops>>

\* LspServer::start fails: the server is not available or does not spawn.
StartFails ==
  /\ pc = "start"
  /\ ret' = "err" /\ pc' = "returned"
  /\ UNCHANGED <<inputVars, batchVars, process, next_id, stdin, broken, serverVars, readVars, loopVars,
                 ops>>

\* LspServer::start (lsp.rs:253-331).
start ==
  /\ pc = "start"
  /\ process' = spawned(process)
  /\ next_id' = FirstId
  /\ pc' = "init_send"
  /\ UNCHANGED <<inputVars, batchVars, stdin, broken, serverVars, readVars, loopVars, ret, ops>>

\* A handshake that sends initialize and does not wait for its response.
InitSend_NoWait ==
  /\ pc = "init_send"
  /\ WriteOk
  /\ next_id' = next_id + 1
  /\ stdin' = Append(stdin, Request(next_id, "initialize", 0, 0))
  /\ pc' = "init_notify"
  /\ UNCHANGED <<inputVars, batchVars, process, broken, serverVars, readVars, loopVars, ret, ops>>

\* request::<Initialize>, its send_request half (lsp.rs:203, 75-99).
InitSend ==
  /\ pc = "init_send"
  /\ next_id' = next_id + 1
  /\ IF WriteOk
       THEN /\ stdin' = Append(stdin, Request(next_id, "initialize", 0, 0))
            /\ wait_id' = next_id /\ skipped' = <<>> /\ last' = NoOutcome
            /\ pc' = "init_wait"
            /\ UNCHANGED <<process, broken, ret>>
       ELSE /\ last' = Err("send", BadFrame)
            /\ Leave("err")
            /\ UNCHANGED <<stdin, wait_id, skipped>>
  /\ UNCHANGED <<inputVars, batchVars, serverVars, answered, loopVars, ops>>

\* request::<Initialize>, one iteration of its read loop, and the `?` after it.
InitWait ==
  /\ pc = "init_wait"
  /\ stdout # <<>>
  /\ LET frame == Head(stdout)
         step == read_response_with_id(frame, wait_id)
         out == request_result("initialize", frame)
     IN /\ stdout' = Tail(stdout)
        /\ CASE step = "continue" ->
                  /\ skipped' = Append(skipped, frame)
                  /\ UNCHANGED <<answered, last, pc, process, broken, ret>>
             [] step = "err" ->
                  /\ last' = Err("transport", frame)
                  /\ Leave("err")
                  /\ UNCHANGED <<answered, skipped>>
             [] step = "return" ->
                  /\ answered' = answered \cup ({frame.re} \ {0})
                  /\ last' = out
                  /\ IF out.k = "ok" THEN pc' = "init_notify" /\ UNCHANGED <<process, broken, ret>>
                                     ELSE Leave("err")
                  /\ UNCHANGED skipped
  /\ UNCHANGED <<inputVars, batchVars, next_id, stdin, closed, noise, responded, wait_id, loopVars, ops>>

\* send_notification::<Initialized> (lsp.rs:365, integration.rs:140).
InitNotify ==
  /\ pc = "init_notify"
  /\ IF WriteOk
       THEN /\ stdin' = Append(stdin, Notification("initialized", 0))
            /\ pc' = CASE entry = "resolver" -> "next_file"
                        [] entry \in {"references", "hierarchy"} -> "files"
                        [] OTHER -> "ready"
            /\ UNCHANGED <<process, broken, ret>>
       ELSE /\ Leave("err")
            /\ UNCHANGED stdin
  /\ UNCHANGED <<inputVars, batchVars, next_id, serverVars, readVars, loopVars, ops>>

\* read_line at end-of-file gives Ok(0) and an empty header, which is not
\* "\r\n": the header loop of read_response runs on (lsp.rs:157-168).
ReadAtEof ==
  /\ pc \in {"init_wait", "call_wait", "api_request_wait", "api_read_wait", "symbols_wait",
            "symbol_wait", "outgoing_wait"}
  /\ AtEof
  /\ pc' = "hung"
  /\ UNCHANGED <<inputVars, batchVars, process, next_id, stdin, broken, serverVars, readVars, loopVars,
                 ret, ops>>

\* ------------------------------------ find_all_call_targets, the file loop
\* A stop that does not wait for the end of the loop.
Stop_Early ==
  /\ pc = "next_file"
  /\ process' = stopped(stopped(process))
  /\ broken' = TRUE /\ ret' = "ok" /\ pc' = "returned"
  /\ UNCHANGED <<inputVars, batchVars, next_id, stdin, serverVars, readVars, loopVars, ops>>

\* The loop over matching_files is over (integration.rs:148, 253-266): stop,
\* return the results; the session is dropped on the way out, and Drop runs
\* stop once more.
Stop ==
  /\ pc = "next_file"
  /\ fileIdx > nfiles
  /\ process' = stopped(stopped(process))
  /\ broken' = TRUE /\ ret' = "ok" /\ pc' = "returned"
  /\ UNCHANGED <<inputVars, batchVars, next_id, stdin, serverVars, readVars, loopVars, ops>>

\* A loop that gives up at a file it cannot read.
SkipFile_Abort ==
  /\ pc = "next_file"
  /\ fileIdx <= nfiles
  /\ \E file \in FileDescs : file.kind \in {"unreadable", "unparseable"} /\ cur' = file
  /\ log' = log \cup {fileIdx}
  /\ Leave("err")
  /\ UNCHANGED <<inputVars, attempt, slept, next_id, stdin, serverVars, readVars, nsites, fileIdx,
                 callIdx, results, ops>>

\* The next file cannot be read, or does not parse: warn, continue
\* (integration.rs:155-171).
SkipFile ==
  /\ pc = "next_file"
  /\ fileIdx <= nfiles
  /\ \E file \in FileDescs : file.kind \in {"unreadable", "unparseable"} /\ cur' = file
  /\ fileIdx' = fileIdx + 1
  /\ log' = log \cup {fileIdx}
  /\ UNCHANGED <<inputVars, attempt, slept, pc, process, next_id, stdin, broken, serverVars, readVars,
                 nsites, callIdx, results, ret, ops>>

\* The next file's path holds a space: `file_uri.parse()?` fails
\* (integration.rs:178) and the function returns Err.
UriFails ==
  /\ pc = "next_file"
  /\ fileIdx <= nfiles
  /\ \E file \in FileDescs : file.kind = "space" /\ cur' = file
  /\ Leave("err")
  /\ UNCHANGED <<inputVars, batchVars, next_id, stdin, serverVars, readVars, nsites, fileIdx, callIdx,
                 results, ops>>

\* A loop that goes on to the queries of a file without its didOpen.
OpenDocument_NoOpen ==
  /\ pc = "next_file"
  /\ fileIdx <= nfiles
  /\ \E file \in FileDescs :
       /\ file.kind = "ok" /\ file.calls <= MaxSites - nsites
       /\ cur' = file
       /\ nsites' = nsites + file.calls
  /\ callIdx' = 1
  /\ pc' = "next_call"
  /\ UNCHANGED <<inputVars, batchVars, process, next_id, stdin, fileIdx, broken, serverVars, readVars,
                 results, ret, ops>>

\* The next file is read and parsed: send_notification::<DidOpenTextDocument>
\* (integration.rs:173-187), then get_calls (integration.rs:194).
OpenDocument ==
  /\ pc = "next_file"
  /\ fileIdx <= nfiles
  /\ \E file \in FileDescs :
       /\ file.kind = "ok" /\ file.calls <= MaxSites - nsites
       /\ cur' = file
       /\ nsites' = IF WriteOk THEN nsites + file.calls ELSE nsites
  /\ IF WriteOk
       THEN /\ stdin' = Append(stdin, Notification("didOpen", fileIdx))
            /\ callIdx' = 1
            /\ pc' = "next_call"
            /\ UNCHANGED fileIdx
       ELSE /\ fileIdx' = fileIdx + 1
            /\ UNCHANGED <<stdin, callIdx, pc>>
  /\ UNCHANGED <<inputVars, batchVars, process, next_id, broken, serverVars, readVars, results, ret,
                 ops>>

\* goto_definition_for_node -> request::<GotoDefinition>, its send_request
\* half (integration.rs:199-201, 28-53; lsp.rs:203). A failed write is the
\* Err arm of the match (integration.rs:228-236).
QuerySend ==
  /\ pc = "next_call"
  /\ callIdx <= cur.calls
  /\ next_id' = next_id + 1
  /\ IF WriteOk
       THEN /\ stdin' = Append(stdin, Request(next_id, "definition", fileIdx, callIdx))
            /\ wait_id' = next_id /\ skipped' = <<>> /\ last' = NoOutcome
            /\ pc' = "call_wait"
            /\ UNCHANGED callIdx
       ELSE /\ last' = Err("send", BadFrame)
            /\ callIdx' = callIdx + 1
            /\ UNCHANGED <<stdin, wait_id, skipped, pc>>
  /\ UNCHANGED <<inputVars, batchVars, process, broken, serverVars, answered, cur, nsites, fileIdx,
                 results, ret, ops>>

\* The arms of the match on goto_definition_for_node's value
\* (integration.rs:201-237): only Ok(Some(definition)) pushes a result.
Pushed(out) ==
  IF out.k = "ok" /\ out.result.k = "def"
    THEN Append(results, [f |-> fileIdx, s |-> callIdx, definition |-> out.result])
    ELSE results

\* request::<GotoDefinition>, one iteration of its read loop, and the match.
QueryWait ==
  /\ pc = "call_wait"
  /\ stdout # <<>>
  /\ LET frame == Head(stdout)
         step == read_response_with_id(frame, wait_id)
         out == request_result("definition", frame)
     IN /\ stdout' = Tail(stdout)
        /\ CASE step = "continue" ->
                  /\ skipped' = Append(skipped, frame)
                  /\ UNCHANGED <<answered, last, pc, callIdx, results>>
             [] step = "err" ->
                  /\ last' = Err("transport", frame)
                  /\ callIdx' = callIdx + 1
                  /\ pc' = "next_call"
                  /\ UNCHANGED <<answered, skipped, results>>
             [] step = "return" ->
                  /\ answered' = answered \cup ({frame.re} \ {0})
                  /\ last' = out
                  /\ results' = Pushed(out)
                  /\ callIdx' = callIdx + 1
                  /\ pc' = "next_call"
                  /\ UNCHANGED skipped
  /\ UNCHANGED <<inputVars, batchVars, process, next_id, stdin, broken, closed, noise, responded, wait_id,
                 cur, nsites, fileIdx, ret, ops>>

\* send_notification::<DidCloseTextDocument>; a failure is logged only
\* (integration.rs:240-250).
CloseDocument ==
  /\ pc = "next_call"
  /\ callIdx > cur.calls
  /\ stdin' = IF WriteOk THEN Append(stdin, Notification("didClose", fileIdx)) ELSE stdin
  /\ fileIdx' = fileIdx + 1
  /\ pc' = "next_file"
  /\ UNCHANGED <<inputVars, batchVars, process, next_id, broken, serverVars, readVars, cur, nsites,
                 callIdx, results, ret, ops>>

\* ------------------------------------------------------ the server
\* What the server may answer to the request at position i of stdin.
Answers(i) ==
  LET req == stdin[i]
      results_ == IF req.method = "initialize"
                    THEN {CapsResult, NullResult}
                    ELSE {NullResult, DefResult(req.f, req.s), JunkResult}
  IN {Msg(U64Id(req.id), "", r, NoError, i) : r \in results_}
       \cup {Msg(U64Id(req.id), "", NoResult, e, i) :
               e \in {ErrorObj(TRUE, -32601, TRUE, "Method not found"),
                      ErrorObj(FALSE, 0, FALSE, "")}}
       \cup {Msg(U64Id(req.id), "", NoResult, NoError, i)}

\* The client looks at the server's stdout only inside read_response, and the
\* pipe keeps the order of what was written. A frame the server wrote early
\* reads exactly like one handed over when the client comes to read it, so
\* the model hands the client one frame at a time, when it waits for one:
\* stdout holds at most the frame to read next. What the client is handed
\* after the server has gone (broken) is what the server had written before.
Listening ==
  /\ ~closed
  /\ stdout = <<>>
  /\ pc \in {"init_wait", "call_wait", "api_request_wait", "api_read_wait", "symbols_wait",
            "symbol_wait", "outgoing_wait"}

\* The server answers a request it has read, with the request's id.
SrvRespond ==
  /\ Listening
  /\ \E i \in (1..Len(stdin)) \ responded :
       /\ stdin[i].kind = "request"
       /\ \E m \in Answers(i) : stdout' = Append(stdout, m)
       /\ responded' = responded \cup {i}
  /\ UNCHANGED <<inputVars, batchVars, pc, process, next_id, stdin, broken, closed, noise, readVars,
                 loopVars, ret, ops>>

\* Unsolicited frames: a notification, a request of the server's own (it
\* carries an id of the server's choosing: the one the client waits for, or
\* another), a message whose id is no unsigned integer, a frame that does
\* not decode.
NoiseFrames ==
  {Msg(NoId, "window/logMessage", NoResult, NoError, 0),
   Msg(U64Id(wait_id), "workspace/configuration", NoResult, NoError, 0),
   Msg(U64Id(wait_id + 1), "workspace/configuration", NoResult, NoError, 0),
   Msg(OtherId, "", NullResult, NoError, 0),
   BadFrame}

SrvNoise ==
  /\ Listening
  /\ noise < MaxNoise
  /\ \E m \in NoiseFrames : stdout' = Append(stdout, m)
  /\ noise' = noise + 1
  /\ UNCHANGED <<inputVars, batchVars, pc, process, next_id, stdin, broken, closed, responded,
                 readVars, loopVars, ret, ops>>

\* The server exits, at any time.
SrvExit ==
  /\ process.state = "running" /\ ~broken
  /\ broken' = TRUE
  /\ UNCHANGED <<inputVars, batchVars, pc, process, next_id, stdin, stdout, closed, noise, responded,
                 readVars, loopVars, ret, ops>>

\* The client has read all the server wrote before it went: end-of-file,
\* possibly in the middle of a frame's payload.
SrvEof ==
  /\ Listening
  /\ broken
  /\ closed' = TRUE
  /\ \E cut \in BOOLEAN : stdout' = IF cut THEN <<TruncFrame>> ELSE <<>>
  /\ UNCHANGED <<inputVars, batchVars, pc, process, next_id, stdin, broken, noise, responded, readVars,
                 loopVars, ret, ops>>

\* ------------- a caller of start_and_init using the public operations
Ready == entry \in {"session", "owner"} /\ pc = "ready" /\ ops < MaxOps

\* LspServer::start (lsp.rs:253-331) called by the owner of the session: it
\* returns the session with the process spawned and nothing sent.
ApiStart ==
  /\ entry = "owner" /\ pc = "start"
  /\ process' = spawned(process)
  /\ next_id' = FirstId
  /\ pc' = "ready"
  /\ UNCHANGED <<inputVars, batchVars, stdin, broken, serverVars, readVars, loopVars, ret, ops>>

\* LspServer::send_request_with_id (lsp.rs:83-99): the stream after the call.
send_request_with_id(id, method) ==
  IF WriteOk THEN Append(stdin, Request(id, method, 0, 0)) ELSE stdin

\* LspServer::send_request (lsp.rs:75-80).
ApiSendRequest ==
  /\ Ready
  /\ next_id' = next_id + 1
  /\ stdin' = send_request_with_id(next_id, "definition")
  /\ ops' = ops + 1
  /\ UNCHANGED <<inputVars, batchVars, pc, process, broken, serverVars, readVars, loopVars, ret>>

\* LspServer::send_request_with_id called by the owner of the session.
ApiSendRequestWithId ==
  /\ Ready
  /\ \E id \in 1..next_id : stdin' = send_request_with_id(id, "definition")
  /\ ops' = ops + 1
  /\ UNCHANGED <<inputVars, batchVars, pc, process, next_id, broken, serverVars, readVars, loopVars,
                 ret>>

\* A send_notification that takes an id from the counter as a request does.
ApiSendNotification_Counted ==
  /\ Ready
  /\ \E method \in {"didOpen", "didClose"} :
       stdin' = IF WriteOk THEN Append(stdin, Notification(method, 1)) ELSE stdin
  /\ next_id' = next_id + 1
  /\ ops' = ops + 1
  /\ UNCHANGED <<inputVars, batchVars, pc, process, broken, serverVars, readVars, loopVars, ret>>

\* LspServer::send_notification, open_file, close_file (lsp.rs:102-151).
ApiSendNotification ==
  /\ Ready
  /\ \E method \in {"didOpen", "didClose"} :
       stdin' = IF WriteOk THEN Append(stdin, Notification(method, 1)) ELSE stdin
  /\ ops' = ops + 1
  /\ UNCHANGED <<inputVars, batchVars, pc, process, next_id, broken, serverVars, readVars, loopVars,
                 ret>>

\* LspServer::request, its send_request half (lsp.rs:203).
ApiRequest ==
  /\ Ready
  /\ next_id' = next_id + 1
  /\ stdin' = send_request_with_id(next_id, "definition")
  /\ IF WriteOk
       THEN wait_id' = next_id /\ skipped' = <<>> /\ last' = NoOutcome
            /\ pc' = "api_request_wait"
       ELSE last' = Err("send", BadFrame) /\ UNCHANGED <<wait_id, skipped, pc>>
  /\ ops' = ops + 1
  /\ UNCHANGED <<inputVars, batchVars, process, broken, serverVars, answered, loopVars, ret>>

\* LspServer::request, one iteration of its read loop, and lsp.rs:206-227.
ApiRequestWait ==
  /\ pc = "api_request_wait"
  /\ stdout # <<>>
  /\ LET frame == Head(stdout)
         step == read_response_with_id(frame, wait_id)
     IN /\ stdout' = Tail(stdout)
        /\ CASE step = "continue" ->
                  /\ skipped' = Append(skipped, frame)
                  /\ UNCHANGED <<answered, last, pc>>
             [] step = "err" ->
                  /\ last' = Err("transport", frame)
                  /\ pc' = "ready"
                  /\ UNCHANGED <<answered, skipped>>
             [] step = "return" ->
                  /\ answered' = answered \cup ({frame.re} \ {0})
                  /\ last' = request_result("definition", frame)
                  /\ pc' = "ready"
                  /\ UNCHANGED skipped
  /\ UNCHANGED <<inputVars, batchVars, process, next_id, stdin, broken, closed, noise, responded, wait_id,
                 loopVars, ret, ops>>

\* A read_response_with_id that keeps the messages the call before it
\* skipped and hands one of them back when it carries the expected id.
ApiReadResponseWithId_Buffered ==
  /\ Ready
  /\ \E expected_id \in 1..next_id :
       /\ wait_id' = expected_id
       /\ IF \E k \in 1..Len(skipped) : skipped[k].id = U64Id(expected_id)
            THEN \E k \in 1..Len(skipped) :
                   /\ skipped[k].id = U64Id(expected_id)
                   /\ answered' = answered \cup ({skipped[k].re} \ {0})
                   /\ last' = Returned(skipped[k])
                   /\ skipped' = <<>>
                   /\ pc' = pc
            ELSE /\ skipped' = <<>> /\ last' = NoOutcome
                 /\ pc' = "api_read_wait"
                 /\ UNCHANGED answered
  /\ ops' = ops + 1
  /\ UNCHANGED <<inputVars, batchVars, process, next_id, stdin, broken, serverVars, loopVars,
                 ret>>

\* LspServer::read_response_with_id called by the owner of the session.
ApiReadResponseWithId ==
  /\ Ready
  /\ \E expected_id \in 1..next_id : wait_id' = expected_id
  /\ skipped' = <<>> /\ last' = NoOutcome
  /\ pc' = "api_read_wait"
  /\ ops' = ops + 1
  /\ UNCHANGED <<inputVars, batchVars, process, next_id, stdin, broken, serverVars, answered, loopVars,
                 ret>>

\* One iteration of the loop of read_response_with_id (lsp.rs:184-198).
ApiReadWait ==
  /\ pc = "api_read_wait"
  /\ stdout # <<>>
  /\ LET frame == Head(stdout)
         step == read_response_with_id(frame, wait_id)
     IN /\ stdout' = Tail(stdout)
        /\ CASE step = "continue" ->
                  /\ skipped' = Append(skipped, frame)
                  /\ UNCHANGED <<answered, last, pc>>
             [] step = "err" ->
                  /\ last' = Err("transport", frame)
                  /\ pc' = "ready"
                  /\ UNCHANGED <<answered, skipped>>
             [] step = "return" ->
                  /\ answered' = answered \cup ({frame.re} \ {0})
                  /\ last' = Returned(frame)
                  /\ pc' = "ready"
                  /\ UNCHANGED skipped
  /\ UNCHANGED <<inputVars, batchVars, process, next_id, stdin, broken, closed, noise, responded, wait_id,
                 loopVars, ret, ops>>

\* LspServer::stop (lsp.rs:231-250) called by the owner of the session.
stop ==
  /\ Ready
  /\ process' = stopped(process)
  /\ broken' = TRUE
  /\ ops' = ops + 1
  /\ UNCHANGED <<inputVars, batchVars, pc, next_id, stdin, stdout, closed, noise, responded, readVars,
                 loopVars, ret>>

\* The owner lets go of the session: Drop for LspServer (lsp.rs:372-378).
drop ==
  /\ entry \in {"session", "owner"} /\ pc = "ready"
  /\ Leave("ok")
  /\ UNCHANGED <<inputVars, batchVars, next_id, stdin, serverVars, readVars, loopVars, ops>>

\* ------- process_files (find-references), extract_call_hierachy_for_files
\* The next file's path holds a space (find-references.rs:44-49,
\* call-hierachy.rs:147-155), or it does not canonicalize or cannot be read
\* (find-references.rs:61-76, call-hierachy.rs:167-184): a diagnostic, continue.
BatchSkip ==
  /\ pc = "files"
  /\ fileIdx <= nfiles
  /\ \E file \in FileDescs : file.kind \in {"space", "unreadable"} /\ cur' = file
  /\ log' = log \cup {fileIdx}
  /\ fileIdx' = fileIdx + 1
  /\ UNCHANGED <<inputVars, attempt, slept, pc, process, next_id, stdin, broken, serverVars, readVars,
                 nsites, callIdx, results, ret, ops>>

\* The next file is read: open_file; when it fails, warn and continue
\* (find-references.rs:79-82, call-hierachy.rs:187-190; lsp.rs:123-132).
\* file.calls is the number of callable symbols of the file.
BatchOpen ==
  /\ pc = "files"
  /\ fileIdx <= nfiles
  /\ \E file \in FileDescs :
       /\ file.kind = "ok" /\ file.calls <= MaxSites - nsites
       /\ cur' = file
       /\ nsites' = IF WriteOk THEN nsites + file.calls ELSE nsites
  /\ IF WriteOk
       THEN /\ stdin' = Append(stdin, Notification("didOpen", fileIdx))
            /\ pc' = "symbols"
            /\ UNCHANGED fileIdx
       ELSE /\ fileIdx' = fileIdx + 1
            /\ UNCHANGED <<stdin, pc>>
  /\ UNCHANGED <<inputVars, batchVars, process, next_id, broken, serverVars, readVars, callIdx,
                 results, ret, ops>>

\* The request the loop is about to send, or waits for the response of:
\* get_document_symbols (find-references.rs:86, call-hierachy.rs:194; the
\* callers show a Result to which `?` is applied, and the model takes it for
\* one request on the session, whose Ok gives the file's symbols), the
\* query of the symbol (find-references.rs:167, call-hierachy.rs:94), the
\* outgoing calls of the prepared item (call-hierachy.rs:269).
BatchMethod ==
  CASE pc \in {"symbols", "symbols_wait"} -> "documentSymbol"
    [] pc \in {"symbol", "symbol_wait"} ->
         IF entry = "references" THEN "references" ELSE "prepareCallHierarchy"
    [] OTHER -> "outgoingCalls"

\* A retry policy that gives every symbol the attempts of the first.
max_attempts_All == IF entry = "references" THEN 3 ELSE 6

\* max_attempts (find-references.rs:151); the range of retries and
\* enable_retries (call-hierachy.rs:79, 119-121, 230).
max_attempts ==
  IF entry = "references" THEN (IF callIdx = 1 THEN 3 ELSE 1)
                          ELSE (IF callIdx <= 2 THEN 6 ELSE 1)

\* A backoff that sleeps the first step before every retry.
delay_ms_Flat == IF entry = "references" THEN 50 ELSE 100

\* The delay slept before attempt number `attempt` (counted from 0), in ms:
\* delay_ms (find-references.rs:154-155), 100 * retries (call-hierachy.rs:80-82).
delay_ms ==
  IF entry = "references" THEN (IF attempt = 1 THEN 50 ELSE 250) ELSE 100 * attempt

\* On to the next symbol of the file.
NextSymbol ==
  /\ callIdx' = callIdx + 1 /\ attempt' = 0 /\ pc' = "symbol"
  /\ UNCHANGED <<process, broken, ret>>

\* The request returned Err and the `?` after it leaves the function:
\* get_document_symbols(..)? (find-references.rs:86, call-hierachy.rs:194);
\* prepare_call_hierarchy returns the Err of its request
\* (call-hierachy.rs:108-115) and its caller applies `?` (231-232).
Propagates(out) ==
  /\ out.k = "err"
  /\ \/ pc \in {"symbols", "symbols_wait"}
     \/ pc \in {"symbol", "symbol_wait"} /\ entry = "hierarchy"

\* A loop that takes an Err like an empty answer and tries again.
Settle_RetryErr(out) ==
  IF Propagates(out) THEN Leave("err") /\ UNCHANGED <<callIdx, attempt>>
  ELSE IF pc \in {"symbols", "symbols_wait"} THEN
    /\ callIdx' = 1 /\ attempt' = 0 /\ pc' = "symbol"
    /\ UNCHANGED <<process, broken, ret>>
  ELSE IF pc \in {"symbol", "symbol_wait"} THEN
    IF out.k = "ok" /\ out.result.k = "def" THEN
      IF entry = "references" THEN NextSymbol
      ELSE pc' = "outgoing" /\ UNCHANGED <<callIdx, attempt, process, broken, ret>>
    ELSE IF attempt + 1 < max_attempts THEN
      /\ attempt' = attempt + 1 /\ pc' = "symbol"
      /\ UNCHANGED <<callIdx, process, broken, ret>>
    ELSE NextSymbol
  ELSE NextSymbol

\* What the loop does with the value `out` of the request it made.
Settle(out) ==
  IF Propagates(out) THEN Leave("err") /\ UNCHANGED <<callIdx, attempt>>
  ELSE IF pc \in {"symbols", "symbols_wait"} THEN
    \* the callable symbols are collected and their loop starts
    /\ callIdx' = 1 /\ attempt' = 0 /\ pc' = "symbol"
    /\ UNCHANGED <<process, broken, ret>>
  ELSE IF pc \in {"symbol", "symbol_wait"} THEN
    IF out.k = "ok" /\ out.result.k = "def" THEN
      \* references found (find-references.rs:168-190); an item prepared
      \* (call-hierachy.rs:97-101), whose outgoing calls are asked for next
      IF entry = "references" THEN NextSymbol
      ELSE pc' = "outgoing" /\ UNCHANGED <<callIdx, attempt, process, broken, ret>>
    ELSE IF out.k = "ok" /\ attempt + 1 < max_attempts THEN
      \* nothing yet: the next attempt (find-references.rs:191-202,
      \* call-hierachy.rs:102-107, 117-119)
      /\ attempt' = attempt + 1 /\ pc' = "symbol"
      /\ UNCHANGED <<callIdx, process, broken, ret>>
    ELSE
      \* nothing after the last attempt; or Err, which ends the attempts
      \* (find-references.rs:204-207)
      NextSymbol
  ELSE
    \* outgoing calls: every arm goes on (call-hierachy.rs:269-354)
    NextSymbol

\* request(), its send_request half, for the request of BatchMethod.
BatchRequest ==
  /\ entry \in {"references", "hierarchy"}
  /\ pc \in {"symbols", "symbol", "outgoing"}
  /\ pc = "symbol" => callIdx <= cur.calls
  /\ slept' = IF pc # "symbol" THEN slept
              ELSE IF attempt = 0 THEN <<>> ELSE Append(slept, delay_ms)
  /\ next_id' = next_id + 1
  /\ IF WriteOk
       THEN /\ stdin' = Append(stdin, Request(next_id, BatchMethod, fileIdx,
                                              IF pc = "symbols" THEN 0 ELSE callIdx))
            /\ wait_id' = next_id /\ skipped' = <<>> /\ last' = NoOutcome
            /\ pc' = CASE pc = "symbols" -> "symbols_wait" [] pc = "symbol" -> "symbol_wait"
                        [] OTHER -> "outgoing_wait"
            /\ UNCHANGED <<callIdx, attempt, process, broken, ret>>
       ELSE /\ last' = Err("send", BadFrame)
            /\ Settle(Err("send", BadFrame))
            /\ UNCHANGED <<stdin, wait_id, skipped>>
  /\ UNCHANGED <<inputVars, log, serverVars, answered, cur, nsites, fileIdx, results, ops>>

\* request(), one iteration of its read loop, and what the loop does with
\* the value.
BatchResponse ==
  /\ pc \in {"symbols_wait", "symbol_wait", "outgoing_wait"}
  /\ stdout # <<>>
  /\ LET frame == Head(stdout)
         step == read_response_with_id(frame, wait_id)
         out == request_result(BatchMethod, frame)
     IN /\ stdout' = Tail(stdout)
        /\ CASE step = "continue" ->
                  /\ skipped' = Append(skipped, frame)
                  /\ UNCHANGED <<answered, last, pc, callIdx, attempt, process, broken, ret>>
             [] step = "err" ->
                  /\ last' = Err("transport", frame)
                  /\ Settle(Err("transport", frame))
                  /\ UNCHANGED <<answered, skipped>>
             [] step = "return" ->
                  /\ answered' = answered \cup ({frame.re} \ {0})
                  /\ last' = out
                  /\ Settle(out)
                  /\ UNCHANGED skipped
  /\ UNCHANGED <<inputVars, log, slept, next_id, stdin, closed, noise, responded, wait_id,
                 cur, nsites, fileIdx, results, ops>>

\* The symbols of the file are done: close_file(..)? (find-references.rs:222,
\* call-hierachy.rs:358; lsp.rs:138-151).
BatchClose ==
  /\ pc = "symbol"
  /\ callIdx > cur.calls
  /\ IF WriteOk
       THEN /\ stdin' = Append(stdin, Notification("didClose", fileIdx))
            /\ fileIdx' = fileIdx + 1
            /\ pc' = "files"
            /\ UNCHANGED <<process, broken, ret>>
       ELSE /\ Leave("err")
            /\ UNCHANGED <<stdin, fileIdx>>
  /\ UNCHANGED <<inputVars, batchVars, next_id, serverVars, readVars, cur, nsites, callIdx,
                 results, ops>>

\* The loop over the files is over: Ok(()); the session is dropped.
BatchDone ==
  /\ pc = "files"
  /\ fileIdx > nfiles
  /\ Leave("ok")
  /\ UNCHANGED <<inputVars, batchVars, next_id, stdin, serverVars, readVars, loopVars, ops>>

\* ------------------------------------------------------------------ Spec
\* The server, and the steps start_and_init and find_all_call_targets share.
Common ==
  \/ StartFails \/ start \/ InitSend \/ InitWait \/ InitNotify \/ ReadAtEof
  \/ SrvRespond \/ SrvNoise \/ SrvExit \/ SrvEof

Resolver ==
  \/ FindFiles \/ Stop \/ SkipFile \/ UriFails \/ OpenDocument \/ QuerySend
  \/ QueryWait \/ CloseDocument

Session ==
  \/ ApiSendRequest \/ ApiSendRequestWithId \/ ApiSendNotification \/ ApiRequest
  \/ ApiRequestWait \/ ApiReadResponseWithId \/ ApiReadWait \/ stop \/ drop

Next == Common \/ Resolver
NextSession == Common \/ Session
NextAll == Common \/ Resolver \/ Session

\* find_all_call_targets against a server.
Spec == Init /\ [][Next]_vars
\* A caller of start_and_init using the public operations, against a server.
SpecSession == InitSession /\ [][NextSession]_vars
\* Both.
SpecAll == InitAll /\ [][NextAll]_vars

Batch ==
  \/ FindFiles \/ BatchSkip \/ BatchOpen \/ BatchRequest \/ BatchResponse \/ BatchClose
  \/ BatchDone
\* process_files, or extract_call_hierachy_for_files, against a server that
\* answers, or exits: what unsolicited frames do to a read is in Spec.
NextBatch ==
  \/ StartFails \/ start \/ InitSend \/ InitWait \/ InitNotify \/ ReadAtEof
  \/ SrvRespond \/ SrvExit \/ SrvEof \/ Batch
SpecBatch == InitBatch /\ [][NextBatch]_vars

\* One of the three loops over the matching files is called.
InitFiles ==
  /\ entry \in {"resolver", "references", "hierarchy"}
  /\ nfiles \in 0..MaxFiles
  /\ InitMsg
  /\ FrameIdle
  /\ WalkIdle
NextFiles ==
  \/ NextBatch
  \/ Stop \/ SkipFile \/ UriFails \/ OpenDocument \/ QuerySend \/ QueryWait \/ CloseDocument
\* find_all_call_targets, process_files or extract_call_hierachy_for_files,
\* against a server that answers, or exits.
SpecFiles == InitFiles /\ [][NextFiles]_vars

Server == ReadAtEof \/ SrvRespond \/ SrvNoise \/ SrvExit \/ SrvEof
NextOwner == ApiStart \/ Session \/ Server
\* A caller of start using the public operations, against a server.
SpecOwner == InitOwner /\ [][NextOwner]_vars

\* ------------------------------------------------ read_response on bytes
msgVars == <<entry, nfiles, cur, nsites, pc, process, next_id, stdin, stdout, broken, closed,
             noise, responded, wait_id, skipped, answered, last, fileIdx, callIdx, results,
             ret, ops, log, attempt, slept>>

\* read_response is called on a stream.
InitFrame ==
  /\ entry = "frame"
  /\ nfiles = 0
  /\ InitMsg
  /\ value \in Values
  /\ \E st \in Streams(value) :
       scenario = st.scenario /\ bytes = st.bytes /\ trailing = st.trailing
  /\ rpc = "header" /\ content_length = 0 /\ buffer = <<>> /\ avail = 0
  /\ returned = NoResponse /\ iter = 0
  /\ WalkIdle

\* In the two actions, \E x \in {e} names the value of e, as a let does.
\* One iteration of the header loop (lsp.rs:157-168). read_line fails on a
\* line that is no UTF-8; at end-of-file it returns Ok(0) and leaves header
\* empty, which is not "\r\n" and has no Content-Length prefix: the loop
\* goes round again.
HeaderLine ==
  /\ rpc = "header"
  /\ \E r \in {read_line(bytes)} :
     \E header \in {from_utf8(r.line)} :
     \E length_str \in {strip_prefix(header.s, ContentLengthPrefix)} :
     \E parsed \in {parse_usize(trim(length_str.rest))} :
        /\ bytes' = r.rest
        /\ iter' = 1 - iter
        /\ IF ~header.ok THEN
             /\ rpc' = "done" /\ returned' = Error("io")
             /\ UNCHANGED content_length
           ELSE IF header.s = CRLF THEN
             /\ rpc' = "content"
             /\ UNCHANGED <<content_length, returned>>
           ELSE IF length_str.some THEN
             IF parsed.ok
               THEN content_length' = parsed.n /\ UNCHANGED <<rpc, returned>>
               ELSE rpc' = "done" /\ returned' = Error("parse") /\ UNCHANGED content_length
           ELSE UNCHANGED <<rpc, content_length, returned>>
  /\ UNCHANGED <<msgVars, walkVars, stderr, value, scenario, trailing, buffer, avail>>

\* The rest of read_response (lsp.rs:170-178): read_exact, from_utf8,
\* from_str.
ReadContent ==
  /\ rpc = "content"
  /\ \E r \in {read_exact(bytes, content_length)} :
     \E response_str \in {from_utf8(r.buf)} :
     \E parsed \in {from_str(response_str.s)} :
        /\ avail' = Len(bytes)
        /\ bytes' = r.rest
        /\ buffer' = r.buf
        /\ returned' = IF ~r.ok THEN Error("eof")
                       ELSE IF ~response_str.ok THEN Error("utf8")
                       ELSE IF ~parsed.ok THEN Error("json")
                       ELSE OkValue(parsed.v)
        /\ rpc' = "done"
  /\ UNCHANGED <<msgVars, walkVars, stderr, value, scenario, trailing, content_length, iter>>

NextFrame == HeaderLine \/ ReadContent

\* read_response on a stream of bytes.
SpecFrame == InitFrame /\ [][NextFrame]_vars

\* Streams on which the read of the frame meets a transport-level failure.
Failing == scenario \in {"cut", "bad_length", "bad_utf8", "bad_json"}

\* read_response is called on a stream that fails.
InitFailing == InitFrame /\ Failing

\* read_response on a stream that fails. The thread that called it runs on:
\* a step it can take is taken.
SpecFrameFair == InitFailing /\ [][NextFrame]_vars /\ WF_vars(NextFrame)

\* ================================================================ claims
\* Positions in stdin of the requests sent on the session.
RequestsSent == {i \in 1..Len(stdin) : stdin[i].kind = "request"}
\* In flight: sent, and the response not yet handed to the caller.
InFlight == RequestsSent \ answered

\* C1: every request id sent on a session is strictly greater than all ids
\* sent before on it, the first is 1, and no two in-flight requests share an
\* id, whatever public send operations are performed.
C1_IdsIncreaseAndInFlightUnique ==
  /\ \A i, j \in RequestsSent : i < j => stdin[i].id < stdin[j].id
  /\ \A i \in RequestsSent : (\A j \in RequestsSent : i <= j) => stdin[i].id = 1
  /\ \A i, j \in InFlight : i # j => stdin[i].id # stdin[j].id

\* C2: the initialize request is the first message sent, its response has
\* been handed to request before anything else is sent, and initialized is
\* sent before any didOpen, didClose or query.
C2_HandshakeFirst ==
  /\ Len(stdin) >= 1 => stdin[1].kind = "request" /\ stdin[1].method = "initialize"
  /\ Len(stdin) >= 2 => 1 \in answered
  /\ \A i \in 1..Len(stdin) :
       stdin[i].method \in {"didOpen", "didClose", "definition"}
         => \E j \in 1..(i - 1) :
              stdin[j].kind = "notification" /\ stdin[j].method = "initialized"

\* C2 witness: after a handshake a document was opened and a query sent.
C2_Witness ==
  \E i, j \in 1..Len(stdin) : stdin[i].method = "didOpen" /\ stdin[j].method = "definition"

\* C3: a message read_response_with_id returns carries the expected id, every
\* message it skipped on the way does not (so the one returned is the first
\* that does), and it raises an error only on a frame read_response fails on.
C3_ReturnsFirstMatch ==
  /\ (last.k # "none" /\ last.resp.t = "msg") => last.resp.id = U64Id(wait_id)
  /\ \A i \in 1..Len(skipped) : skipped[i].t = "msg" /\ skipped[i].id # U64Id(wait_id)
  /\ (last.k = "err" /\ last.why = "transport") => last.resp.t # "msg"

\* C3 witness: read_response_with_id returned a message after skipping one
\* without an id and one with another id.
C3_Witness ==
  /\ last.k \in {"message", "ok"} /\ last.resp.t = "msg" /\ last.resp.id = U64Id(wait_id)
  /\ \E i \in 1..Len(skipped) : skipped[i].id.k = "absent"
  /\ \E i \in 1..Len(skipped) : skipped[i].id.k # "absent"

\* C4: through request(), at most one request is outstanding on the session
\* at every point: the next is sent only after the response to the previous
\* one has been consumed.
C4_OneOutstanding == Cardinality(InFlight) <= 1

\* C5: every definition stored in the results is the server's answer to the
\* query issued for that result's call site.
C5_ResultsPaired ==
  \A i \in 1..Len(results) : results[i].definition = DefResult(results[i].f, results[i].s)

\* C5 witness: a result was stored for a call site although the answer to
\* another call site's query, a definition, came first and was skipped.
C5_Witness ==
  /\ results # <<>>
  /\ pc = "next_call" /\ last.k = "ok" /\ last.result.k = "def"
  /\ \E i \in 1..Len(skipped) : skipped[i].result.k = "def"

\* C6: a frame request_string wrote for a message, read back by
\* read_response, gives a payload of exactly the L bytes the header declared,
\* L being the length in bytes of the message's UTF-8 serialization, and a
\* structured value identical to the message; the bytes after the frame are
\* left in the stream.
C6_RoundTrip ==
  (rpc = "done" /\ scenario = "whole")
    => /\ returned = OkValue(value)
       /\ buffer = as_bytes(to_string(value))
       /\ content_length = Len(buffer)
       /\ bytes = trailing

\* C6 witness: a request whose text is not ASCII came back whole, with
\* another frame behind it.
C6_Witness ==
  /\ rpc = "done" /\ scenario = "whole" /\ returned.k = "ok"
  /\ returned.v.t = "obj" /\ content_length > Len(to_string(value))
  /\ trailing # <<>>

\* C7: when the header declared more bytes than were left in the stream
\* before end-of-file, read_response returns an error and no value.
C7_TruncatedPayloadIsError ==
  (rpc = "done" /\ content_length > avail) => (returned.k = "err" /\ returned.v = Null)

\* C7 witness: end-of-file came inside the payload and read_exact failed.
C7_Witness ==
  /\ rpc = "done" /\ scenario = "cut" /\ avail > 0 /\ content_length > avail
  /\ returned = Error("eof")

\* C8: on a stream that fails while the frame is read, end-of-file before
\* the empty line of the header block included, read_response eventually
\* returns an error.
C8_FailureReturnsError == Failing ~> (rpc = "done" /\ returned.k = "err")

\* C9: when the response matched to a request carries an error payload,
\* request returns a failure with the payload's code and message, and no
\* result.
C9_ErrorSurfaced ==
  (last.k \in {"ok", "err"} /\ last.resp.t = "msg" /\ last.resp.error.k # "absent")
    => /\ last.k = "err" /\ last.why = "lsp"
       /\ last.result = NoResult
       /\ (last.resp.error.hasCode => last.code = last.resp.error.code)
       /\ (last.resp.error.hasMsg => last.msg = last.resp.error.msg)

\* C9 witness: request returned the failure of an error payload.
C9_Witness ==
  /\ last.k = "err" /\ last.why = "lsp"
  /\ last.resp.error.hasCode /\ last.code = -32601 /\ last.msg = "Method not found"

\* C10: a response to a query that carries a null result makes the query
\* return Ok(None), and the resolver goes on to the next call site: no error
\* is returned, no result is stored.
C10_NullIsNoDefinition ==
  [][(/\ pc = "call_wait" /\ stdout # <<>> /\ stdout' = <<>>
      /\ Head(stdout).t = "msg"
      /\ Head(stdout).id = U64Id(wait_id)
      /\ Head(stdout).error.k = "absent"
      /\ Head(stdout).result.k = "null")
       => (/\ last'.k = "ok" /\ last'.result = NullResult
           /\ pc' = "next_call" /\ callIdx' = callIdx + 1
           /\ results' = results /\ ret' = "none")]_vars

\* C10 witness: a query came back with no definition and the loop moved on.
C10_Witness ==
  /\ pc = "next_call" /\ callIdx = 2
  /\ last.k = "ok" /\ last.result = NullResult

\* C11: a stop of a session that was stopped before, the stop Drop runs after
\* an explicit stop included, performs no operation on the process: once the
\* session is stopped, one kill and one wait have been made, however many
\* times stop was called.
C11_StopIdempotent ==
  process.stops >= 1 => process.kills = 1 /\ process.waits = 1

\* C12: once the process is spawned, every way out of the code that owns the
\* session (normal return, early return on an error, the owner letting go of
\* it) has called stop at least once.
C12_StopOnEveryExit ==
  (pc = "returned" /\ process.state # "none") => process.stops >= 1

\* C12 witness: an early return on an error, after the spawn, with the
\* process stopped.
C12_Witness ==
  pc = "returned" /\ ret = "err" /\ process.stops = 1 /\ process.state = "reaped"

\* The handshake of the session has completed: initialized was sent.
HandshakeDone ==
  \E j \in 1..Len(stdin) : stdin[j].kind = "notification" /\ stdin[j].method = "initialized"

\* C13: a didOpen, a didClose or a query is sent on a session only in Ready:
\* none is sent on a session whose handshake has not completed, or that has
\* been stopped.
C13_OnlyInReady ==
  [][(/\ Len(stdin') > Len(stdin)
      /\ stdin'[Len(stdin')].method \in {"didOpen", "didClose", "definition"})
       => (HandshakeDone /\ process.stops = 0)]_vars

\* Positions in stdin of the notifications of a method about file f.
Notified(method, f) ==
  {j \in 1..Len(stdin) :
     stdin[j].kind = "notification" /\ stdin[j].method = method /\ stdin[j].f = f}

\* C14: in the resolver, every query about a file is sent after that file's
\* didOpen and before its didClose; a file whose didOpen was not sent gets no
\* query.
C14_QueriesWhileOpen ==
  \A i \in 1..Len(stdin) :
    stdin[i].method = "definition"
      => /\ \E j \in 1..(i - 1) :
              stdin[j].method = "didOpen" /\ stdin[j].f = stdin[i].f
         /\ \A k \in 1..(i - 1) :
              ~(stdin[k].method = "didClose" /\ stdin[k].f = stdin[i].f)

\* C14 witness: the first file was opened, queried and closed; the didOpen of
\* the second, which has a call site, could not be sent and the loop went on.
C14_Witness ==
  /\ \E i \in RequestsSent : stdin[i].method = "definition" /\ stdin[i].f = 1
  /\ Notified("didClose", 1) # {}
  /\ fileIdx = 3 /\ cur.kind = "ok" /\ cur.calls > 0
  /\ Notified("didOpen", 2) = {}

\* Positions in stdin of the messages about a file.
FileMsgs == {i \in 1..Len(stdin) : stdin[i].method \in {"didOpen", "didClose", "definition"}}
\* The place of a message about a file in the order of the loop: files in
\* the order of the list, and for one file its didOpen, the queries of its
\* call sites in the order of get_calls, its didClose.
Place(m) ==
  m.f * (MaxSites + 2)
    + (CASE m.method = "didOpen" -> 0 [] m.method = "definition" -> m.s
         [] OTHER -> MaxSites + 1)
\* The messages sent follow the order of the loop, none sent twice: from
\* the first message about a file on, each message is about a file and has
\* a later place than the one before it. And a file handled while every
\* write succeeded has its didOpen, one query for each call site, and its
\* didClose.
InLoopOrder ==
  /\ \A i \in 1..(Len(stdin) - 1) :
       stdin[i].method \in {"didOpen", "didClose", "definition"}
         => /\ stdin[i + 1].method \in {"didOpen", "didClose", "definition"}
            /\ Place(stdin[i]) < Place(stdin[i + 1])
  /\ (pc = "next_file" /\ cur.kind = "ok" /\ ~broken)
       => /\ Notified("didOpen", fileIdx - 1) # {}
          /\ Notified("didClose", fileIdx - 1) # {}
          /\ \A c \in 1..cur.calls :
               \E i \in RequestsSent :
                 stdin[i].method = "definition" /\ stdin[i].f = fileIdx - 1 /\ stdin[i].s = c

\* C15, as claimed: find_all_call_targets starts exactly one session per
\* invocation, handles the files in input order (didOpen, one query per call
\* site in walker order, didClose, before the next file is opened), and stops
\* the session only after the last file has been handled.
C15_OneSessionInOrder ==
  /\ process.spawns <= 1
  /\ (pc = "returned" => process.spawns = 1)
  /\ InLoopOrder
  /\ (process.stops >= 1 => (pc = "returned" /\ fileIdx > nfiles))

\* C15, amended: find_all_call_targets starts at most one session per
\* invocation, and exactly one when it returns Ok on a list that is not
\* empty; it handles the files in input order (didOpen, one query per call
\* site in walker order, didClose, before the next file is opened); it stops
\* the session only on its way out, and when it returns Ok only after the
\* last file has been handled.
C15_OneSessionInOrder_Amended ==
  /\ process.spawns <= 1
  /\ (pc = "returned" /\ ret = "ok" /\ nfiles > 0 => process.spawns = 1)
  /\ InLoopOrder
  /\ (process.stops >= 1 => (pc = "returned" /\ (ret = "ok" => fileIdx > nfiles)))

\* C15 witness: two files were handled, the second with a query, and the
\* session was stopped after them.
C15_Witness ==
  /\ pc = "returned" /\ ret = "ok" /\ process.stops >= 1
  /\ Notified("didClose", 1) # {} /\ Notified("didClose", 2) # {}
  /\ \E i \in RequestsSent : stdin[i].method = "definition" /\ stdin[i].f = 2

\* The entries of the results for call site c of file f.
EntriesFor(f, c) == {i \in 1..Len(results) : results[i].f = f /\ results[i].s = c}

\* C16: the result of the resolver is complete: for every file it processed
\* and every call site get_calls yields for it, the results hold one entry
\* for that call site, carrying its resolution.
C16_ResultComplete ==
  (pc = "next_file" /\ cur.kind = "ok" /\ Notified("didOpen", fileIdx - 1) # {})
    => \A c \in 1..cur.calls : Cardinality(EntriesFor(fileIdx - 1, c)) = 1

\* The step is the send of the query for a call site or a symbol, or an
\* iteration of the read loop of its request.
QueryStep ==
  /\ pc \in {"next_call", "call_wait", "symbol", "symbol_wait"}
  /\ \/ next_id' = next_id + 1
     \/ stdout # <<>> /\ stdout' = Tail(stdout)

\* C17: a failure of the query for one call site or symbol (transport error,
\* protocol error) does not abort the batch: the loop goes on with the next
\* call site or symbol, in the resolver and in the call-hierarchy
\* orchestration alike.
C17_FailureDoesNotAbort ==
  [][(QueryStep /\ last'.k = "err") => pc' \in {"next_call", "symbol"}]_vars

\* C18: a transport error on a session is fatal to it: once a request of the
\* resolver has failed on one (the write failed, or read_response failed), no
\* further request is sent on the session, and the resolver returns the error
\* to its caller.
C18_TransportErrorFatal ==
  [][(last.k = "err" /\ last.why \in {"send", "transport"})
       => /\ ~(Len(stdin') > Len(stdin) /\ stdin'[Len(stdin')].kind = "request")
          /\ (pc' = "returned" => ret' = "err")]_vars

\* C19: a file whose path holds a literal space is skipped entirely: no
\* didOpen, query or didClose is sent for it, a diagnostic is recorded, and
\* the batch goes on with the next file instead of failing. (cur is the file
\* the loop looked at last.)
C19_SpacePathSkipped ==
  cur.kind = "space"
    => /\ (fileIdx - 1) \in log
       /\ \A i \in FileMsgs : stdin[i].f # fileIdx - 1
       /\ ret # "err"

\* C20: a file that cannot be read is logged and skipped: no message about
\* it is sent to the server, and the loop goes on to the files after it (it
\* ends, with Ok, only when the file was the last). cur is the file the loop
\* looked at last.
C20_UnreadableSkipped ==
  cur.kind = "unreadable"
    => /\ (fileIdx - 1) \in log
       /\ \A i \in FileMsgs : stdin[i].f # fileIdx - 1
       /\ \/ pc \in {"next_file", "files"}
          \/ pc = "returned" /\ ret = "ok" /\ fileIdx > nfiles

\* C20 witness: in the resolver the first file was skipped with a
\* diagnostic, nothing was sent about it, and the second file was opened.
C20_Witness ==
  /\ entry = "resolver" /\ log = {1}
  /\ \A i \in FileMsgs : stdin[i].f # 1
  /\ Notified("didOpen", 2) # {}

\* The number of per-symbol queries (references, prepareCallHierarchy) the
\* batch has written for symbol s of file f.
Attempts(f, s) ==
  Cardinality({i \in 1..Len(stdin) :
                 /\ stdin[i].method \in {"references", "prepareCallHierarchy"}
                 /\ stdin[i].f = f /\ stdin[i].s = s})
\* The delays slept for one symbol increase from one retry to the next.
Increasing(d) == \A i \in 1..(Len(d) - 1) : d[i] < d[i + 1]

RECURSIVE Total(_)
Total(d) == IF d = <<>> THEN 0 ELSE Head(d) + Total(Tail(d))

\* C22: when the answer to the last attempt allowed for the first symbol of
\* a just-opened file is empty, as the answers before it were, the query
\* ends with nothing found and the loop goes on to the next symbol: 3
\* queries were written in find-references (6 in call-hierarchy), and the
\* delays slept between them are the configured steps, 50 ms + 250 ms
\* (100 + 200 + 300 + 400 + 500 ms).
C22_EmptyAfterBudget ==
  [][(/\ pc = "symbol_wait" /\ callIdx = 1 /\ attempt + 1 = max_attempts
      /\ pc' # pc /\ last'.k = "ok" /\ last'.result.k # "def")
     => /\ pc' = "symbol" /\ callIdx' = 2 /\ attempt' = 0 /\ ret' = ret
        /\ IF entry = "references"
             THEN /\ Attempts(fileIdx, 1)' = 3
                  /\ slept' = <<50, 250>> /\ Total(slept') = 50 + 250
             ELSE /\ Attempts(fileIdx, 1)' = 6
                  /\ Total(slept') = 100 + 200 + 300 + 400 + 500]_vars
\* find-references has moved on from the first symbol after three empty
\* answers and 300 ms of delay.
C22_Witness ==
  /\ entry = "references" /\ pc = "symbol" /\ callIdx = 2 /\ attempt = 0
  /\ last.k = "ok" /\ last.result.k = "null"
  /\ Attempts(fileIdx, 1) = 3 /\ Total(slept) = 300

\* ================================================================ walker
\* A Tree is the sequence of its nodes in pre-order: node 1 is the root,
\* parent[n] the parent of node n (0 for the root), kind[n] its kind. The
\* children of a node are in the order of their numbers. A leaf covers one
\* byte of the source, a node the bytes of the leaves below it; the source
\* is one line, so the column of a point is its byte.
MaxNodes == 4

\* The kinds the nodes of the enumerated trees are drawn from.
Kinds == {"call_expression", "navigation_expression", "navigation_suffix",
          "simple_identifier", "arguments"}

\* CALL_NODE_KINDS of get_calls (parser.rs:151-165).
CALL_NODE_KINDS ==
  {"call_expression", "macro_invocation", "call", "new_expression",
   "function_call_expression"}

Size(t) == Len(t.parent)
\* Node n of a parent sequence and the nodes above it.
RECURSIVE AncSelf(_, _)
AncSelf(p, n) == IF n = 0 THEN {} ELSE {n} \cup AncSelf(p, p[n])
\* The parent sequences of the trees of n nodes: the parent of a node is
\* the node before it in pre-order, or a node above that one.
Shapes(n) ==
  {p \in [1..n -> 0..(n - 1)] :
     /\ p[1] = 0
     /\ \A i \in 2..n : p[i] \in 1..(i - 1)
     /\ \A i \in 2..n : p[i] \in AncSelf(p, i - 1)}
\* The trees of at most MaxNodes nodes under a root that is no call.
Trees ==
  UNION {{[parent |-> p, kind |-> [i \in 1..n |-> IF i = 1 THEN "source_file" ELSE k[i]]] :
            p \in Shapes(n), k \in [2..n -> Kinds]} : n \in 1..MaxNodes}

\* The tree of the Swift source `calc.add(2, 3)` (parser.rs:186-202).
SwiftMethodCall ==
  [parent |-> <<0, 1, 2, 3, 3, 5, 5, 2>>,
   kind |-> <<"source_file", "call_expression", "navigation_expression",
              "simple_identifier", "navigation_suffix", ".", "simple_identifier",
              "call_suffix">>]
\* The tree of a Rust body `foo(); bar(1, 2);`: a call_expression holds the
\* identifier of the function and the arguments.
RustCalls ==
  [parent |-> <<0, 1, 2, 2, 1, 5, 5>>,
   kind |-> <<"source_file", "call_expression", "identifier", "arguments",
              "call_expression", "identifier", "arguments">>]

Least(S) == CHOOSE x \in S : \A y \in S : x <= y
children(t, n) == {c \in 1..Size(t) : t.parent[c] = n}
\* The nodes of the subtree of n, and the last of them in pre-order.
Descendants(t, n) == {d \in n..Size(t) : n \in AncSelf(t.parent, d)}
start_byte(t, n) == Cardinality({l \in 1..(n - 1) : children(t, l) = {}})
end_byte(t, n) ==
  Cardinality({l \in 1..Size(t) :
                 /\ children(t, l) = {}
                 /\ \E d \in Descendants(t, n) : l <= d})
start_position(t, n) == [row |-> 0, column |-> start_byte(t, n)]

\* TreeCursor: the node the cursor moves to, 0 when the move returns false
\* and leaves the cursor where it is.
goto_first_child(t, n) == IF children(t, n) = {} THEN 0 ELSE Least(children(t, n))
goto_next_sibling(t, n) ==
  LET later == {c \in children(t, t.parent[n]) : c > n}
  IN IF later = {} THEN 0 ELSE Least(later)
goto_parent(t, n) == t.parent[n]
\* The loop that leaves a finished subtree (parser.rs:252-256, 269-277):
\* the next sibling of the node or of the nearest node above it that has
\* one; 0 when goto_parent failed, with the cursor on the root.
RECURSIVE climb(_, _)
climb(t, n) ==
  IF goto_next_sibling(t, n) # 0 THEN goto_next_sibling(t, n)
  ELSE IF goto_parent(t, n) = 0 THEN 0
  ELSE climb(t, goto_parent(t, n))

\* A narrowing that takes the first node of the kind it looks for in the
\* whole tree.
Hit_Anywhere(t, c) ==
  IF t.kind[c] = "navigation_expression" THEN
    LET inner == {g \in 1..Size(t) :
                    /\ t.kind[g] = "simple_identifier"
                    /\ t.parent[g] # 0
                    /\ t.kind[t.parent[g]] = "navigation_suffix"}
    IN IF inner = {} THEN 0 ELSE Least(inner)
  ELSE IF t.kind[c] \in {"simple_identifier", "identifier"}
    THEN Least({g \in 1..Size(t) : t.kind[g] = t.kind[c]})
  ELSE 0

\* What one child of a call_expression makes find_goto_definition_node
\* return (parser.rs:203-219), 0 when the loop goes on to the next child.
Hit(t, c) ==
  IF t.kind[c] = "navigation_expression" THEN
    LET inner == {g \in 1..Size(t) :
                    /\ t.kind[g] = "simple_identifier"
                    /\ t.parent[g] # 0
                    /\ t.kind[t.parent[g]] = "navigation_suffix"
                    /\ t.parent[t.parent[g]] = c}
    IN IF inner = {} THEN 0 ELSE Least(inner)
  ELSE IF t.kind[c] \in {"simple_identifier", "identifier"} THEN c
  ELSE 0
\* A narrowing that returns the call node itself.
find_goto_definition_node_Identity(t, n) == n
\* find_goto_definition_node (parser.rs:176-225).
find_goto_definition_node(t, n) ==
  IF t.kind[n] = "call_expression" THEN
    LET hits == {c \in children(t, n) : Hit(t, c) # 0}
    IN IF hits = {} THEN n ELSE Hit(t, Least(hits))
  ELSE n

\* Language::call_node_kinds (rust.rs:35-37, swift.rs:35-37).
call_node_kinds(language) ==
  IF language = "rust" THEN {"call_expression", "macro_invocation"}
                       ELSE {"call_expression", "function_call_expression"}
\* Language::find_call (rust.rs:39-45, swift.rs:39-81); 0 for None.
find_call(language, t, n) ==
  IF t.kind[n] \notin call_node_kinds(language) THEN 0
  ELSE IF language = "rust" THEN n
  ELSE find_goto_definition_node(t, n)

\* CallIterator::next (parser.rs:237-279) from a cursor on node `cursor`:
\* whether it returns Some, the call node and its goto_definition_node,
\* and the iterator it leaves.
RECURSIVE next(_, _, _)
next(t, cursor, visited_root) ==
  IF visited_root /\ t.kind[cursor] \in CALL_NODE_KINDS THEN
    [some |-> TRUE, item |-> cursor, anchor |-> find_goto_definition_node(t, cursor),
     cursor |-> IF goto_first_child(t, cursor) # 0 THEN goto_first_child(t, cursor)
                ELSE IF climb(t, cursor) = 0 THEN 1 ELSE climb(t, cursor),
     visited_root |-> visited_root]
  ELSE IF goto_first_child(t, cursor) # 0 THEN next(t, goto_first_child(t, cursor), TRUE)
  ELSE IF climb(t, cursor) = 0 THEN
    [some |-> FALSE, item |-> 0, anchor |-> 0, cursor |-> 1, visited_root |-> TRUE]
  ELSE next(t, climb(t, cursor), TRUE)

\* The CallNode of a call node and its anchor (parser.rs:69-74).
CallNode(n, a) == [call_node |-> n, goto_definition_node |-> a]
\* A walker that narrows only until a walk of the tree has finished.
Pulled_NarrowOnce(t, it) ==
  LET r == next(t, it.cursor, it.visited_root)
  IN [cursor |-> r.cursor, visited_root |-> r.visited_root,
      calls |-> IF r.some
                  THEN Append(it.calls, CallNode(r.item, IF walk.done THEN r.item ELSE r.anchor))
                  ELSE it.calls,
      done |-> ~r.some]
\* The iterator after one more next(), with what it yielded collected.
Pulled(t, it) ==
  LET r == next(t, it.cursor, it.visited_root)
  IN [cursor |-> r.cursor, visited_root |-> r.visited_root,
      calls |-> IF r.some THEN Append(it.calls, CallNode(r.item, r.anchor)) ELSE it.calls,
      done |-> ~r.some]
\* get_calls (parser.rs:149-172): the cursor of tree.walk() is on the root.
NewWalk == [cursor |-> 1, visited_root |-> FALSE, calls |-> <<>>, done |-> FALSE]
\* collect() goes on: the iterator has not returned None. The model stops
\* pulling once more calls were yielded than the tree has nodes.
Pulling(it) == it.cursor # 0 /\ ~it.done /\ Len(it.calls) <= Size(tree)

\* point_to_position (integration.rs:12-17): `as u32` keeps a row and a
\* column below 2^32, as all of a source the model parses are.
point_to_position(point) == [line |-> point.row, character |-> point.column]

\* parse_file returned a tree.
InitWalk ==
  /\ entry = "walker"
  /\ nfiles = 0
  /\ InitMsg
  /\ FrameIdle
  /\ tree \in Trees \cup {SwiftMethodCall, RustCalls}
  /\ walk = NoWalk /\ again = NoWalk /\ sent = <<>>

\* get_calls(&tree) (integration.rs:194).
GetCalls ==
  /\ entry = "walker"
  /\ walk = NoWalk
  /\ walk' = NewWalk
  /\ UNCHANGED <<msgVars, frameVars, stderr, tree, again, sent>>
\* One more item is pulled from the iterator.
Collect ==
  /\ Pulling(walk)
  /\ walk' = Pulled(tree, walk)
  /\ UNCHANGED <<msgVars, frameVars, stderr, tree, again, sent>>
\* goto_definition_for_node for the next of the collected calls
\* (integration.rs:199-201, 33-46): the position is the start of the node
\* the loop names call_node.
Query ==
  /\ walk.done
  /\ again = NoWalk
  /\ Len(sent) < Len(walk.calls)
  /\ sent' = Append(sent, point_to_position(
                            start_position(tree, walk.calls[Len(sent) + 1].call_node)))
  /\ UNCHANGED <<msgVars, frameVars, stderr, tree, walk, again>>
\* get_calls is called on the tree once more.
GetCallsAgain ==
  /\ walk.cursor # 0 /\ ~Pulling(walk)
  /\ again = NoWalk
  /\ again' = NewWalk
  /\ UNCHANGED <<msgVars, frameVars, stderr, tree, walk, sent>>
CollectAgain ==
  /\ Pulling(again)
  /\ again' = Pulled(tree, again)
  /\ UNCHANGED <<msgVars, frameVars, stderr, tree, walk, sent>>

NextWalk == GetCalls \/ Collect \/ Query \/ GetCallsAgain \/ CollectAgain
SpecWalk == InitWalk /\ [][NextWalk]_vars

\* ------------------------------------------------------ claims C23..C29
\* The call nodes of a tree: the nodes of a call kind, all below the root.
CallNodes(t) == {n \in 1..Size(t) : t.kind[n] \in CALL_NODE_KINDS}

\* C23: the walker yields exactly the nodes of a call kind, each once and
\* in pre-order (a nested call after the call around it): the call nodes
\* collected so far have increasing pre-order numbers, and when the
\* iterator has returned None they are all the call nodes of the tree (none
\* for a tree without one).
C23_ExactlyTheCallsInPreorder ==
  /\ \A i \in 1..(Len(walk.calls) - 1) :
       walk.calls[i].call_node < walk.calls[i + 1].call_node
  /\ walk.done =>
       {walk.calls[i].call_node : i \in 1..Len(walk.calls)} = CallNodes(tree)

\* C24: the sequence one get_calls produces is finite, of at most as many
\* calls as the tree has nodes, also when the last node in pre-order is a
\* childless node of a call kind.
C24_AtMostTheNodes == Len(walk.calls) <= Size(tree)

Within(t, a, n) ==
  /\ a \in Descendants(t, n)
  /\ start_byte(t, n) <= start_byte(t, a)
  /\ end_byte(t, a) <= end_byte(t, n)

\* C26: the anchor of every call site the walker emits is the call node or
\* a node below it, and its byte range lies in the call node's; the same
\* holds of what find_call of a language returns for a node of the tree.
C26_AnchorWithinCall ==
  /\ \A i \in 1..Len(walk.calls) :
       Within(tree, walk.calls[i].goto_definition_node, walk.calls[i].call_node)
  /\ \A n \in 1..Size(tree) : \A language \in {"rust", "swift"} :
       find_call(language, tree, n) # 0 => Within(tree, find_call(language, tree, n), n)
\* A call was emitted whose anchor is a node below it, covering fewer bytes.
C26_Witness ==
  \E i \in 1..Len(walk.calls) :
    /\ walk.calls[i].goto_definition_node # walk.calls[i].call_node
    /\ end_byte(tree, walk.calls[i].goto_definition_node)
         - start_byte(tree, walk.calls[i].goto_definition_node)
       < end_byte(tree, walk.calls[i].call_node) - start_byte(tree, walk.calls[i].call_node)

\* The method name of a call of a method: the first simple_identifier of
\* the first navigation_suffix that holds one, in the navigation_expression h.
MethodName(t, h) ==
  {g \in 1..Size(t) :
     /\ t.kind[g] = "simple_identifier" /\ t.parent[g] # 0
     /\ t.kind[t.parent[g]] = "navigation_suffix" /\ t.parent[t.parent[g]] = h}

\* C27: for a call whose head child is a member access (receiver.method(..))
\* the anchor is the simple name inside the suffix of the access: for
\* calc.add(2, 3) the anchor is the token add and covers nothing else, and
\* Swift's find_call returns the same node.
C27_MethodNameAnchor ==
  /\ \A i \in 1..Len(walk.calls) :
       \E c \in {walk.calls[i].call_node} : \E h \in {goto_first_child(tree, c)} :
         (/\ tree.kind[c] = "call_expression" /\ h # 0
          /\ tree.kind[h] = "navigation_expression" /\ MethodName(tree, h) # {})
         => /\ walk.calls[i].goto_definition_node = Least(MethodName(tree, h))
            /\ find_call("swift", tree, c) = Least(MethodName(tree, h))
  /\ (tree = SwiftMethodCall /\ walk.calls # <<>>)
       => /\ walk.calls[1] = CallNode(2, 7)
          /\ start_byte(tree, 7) = 2 /\ end_byte(tree, 7) = 3
          /\ start_byte(tree, 2) = 0 /\ end_byte(tree, 2) = 4
\* calc.add(2, 3) was walked to the end: one call, anchored at add.
C27_Witness ==
  /\ tree = SwiftMethodCall /\ walk.done
  /\ walk.calls = <<CallNode(2, 7)>>

\* C28: in a language of free functions whose calls are call_expression
\* nodes, a body with foo() and bar(1, 2) yields exactly the two calls, in
\* source order, each anchored at the call node itself.
C28_IdentityNarrowing ==
  (tree = RustCalls /\ walk.done) => walk.calls = <<CallNode(2, 2), CallNode(5, 5)>>

\* C29: the position sent in the query for a call site is the start of the
\* call site's anchor node, not the start of the call expression where the
\* two differ.
C29_PositionOfAnchor ==
  \A i \in 1..Len(sent) :
    sent[i] = point_to_position(start_position(tree, walk.calls[i].goto_definition_node))

\* ============================================================== stderr
\* The stderr of the server is a pipe (lsp.rs:280) of PipeCapacity lines; the
\* server writes at most MaxLines lines to it. A line is "utf8" when it is
\* valid UTF-8 and "other" when it is not.
MaxLines == 5
PipeCapacity == 3

\* start is called.
InitStderr ==
  /\ entry = "stderr"
  /\ nfiles = 0
  /\ InitMsg
  /\ FrameIdle
  /\ WalkIdle

\* start takes the stderr of the process it spawned and spawns the thread
\* that reads it (lsp.rs:280, 291, 312-321).
SpawnReader ==
  /\ entry = "stderr"
  /\ stderr = NoPipe
  /\ stderr' = [stderr EXCEPT !.writer = "open", !.reader = "reading"]
  /\ UNCHANGED <<msgVars, frameVars, walkVars>>
\* The server writes a line to its stderr. The write waits while the pipe
\* is full; once the reading end is gone it fails, and the server's end is
\* broken.
SrvWriteErr ==
  /\ stderr.writer = "open"
  /\ stderr.lines < MaxLines
  /\ \E line \in {"utf8", "other"} :
       IF stderr.reader = "ended"
         THEN stderr' = [stderr EXCEPT !.writer = "broken"]
         ELSE /\ Len(stderr.pipe) < PipeCapacity
              /\ stderr' = [stderr EXCEPT !.pipe = Append(@, line), !.lines = @ + 1]
  /\ UNCHANGED <<msgVars, frameVars, walkVars>>
\* The server closes its stderr, or exits.
SrvCloseErr ==
  /\ stderr.writer = "open"
  /\ stderr' = [stderr EXCEPT !.writer = "closed"]
  /\ UNCHANGED <<msgVars, frameVars, walkVars>>
\* One step of `for line in reader.lines().map_while(Result::ok)`
\* (lsp.rs:317-319) with a line in the pipe: a valid line is logged; for a
\* line that is no UTF-8 lines() yields Err, map_while ends the loop, the
\* thread returns and drops the reading end with what was left in the pipe.
ReadLine ==
  /\ stderr.reader = "reading"
  /\ stderr.pipe # <<>>
  /\ stderr' = IF Head(stderr.pipe) = "utf8"
                 THEN [stderr EXCEPT !.pipe = Tail(@), !.logged = @ + 1]
                 ELSE [stderr EXCEPT !.pipe = <<>>, !.reader = "ended"]
  /\ UNCHANGED <<msgVars, frameVars, walkVars>>
\* The same at end-of-file: lines() yields None.
ReadErrEof ==
  /\ stderr.reader = "reading"
  /\ stderr.pipe = <<>>
  /\ stderr.writer = "closed"
  /\ stderr' = [stderr EXCEPT !.reader = "ended"]
  /\ UNCHANGED <<msgVars, frameVars, walkVars>>

NextStderr == SpawnReader \/ SrvWriteErr \/ SrvCloseErr \/ ReadLine \/ ReadErrEof
SpecStderr == InitStderr /\ [][NextStderr]_vars

\* C30: the reader thread keeps draining the server's stderr for as long
\* as the server can write to it and stops only when the stream is closed:
\* the thread has ended only if the server's end of the pipe is closed.
C30_DrainsUntilClosed == stderr.reader = "ended" => stderr.writer = "closed"

\* ------------------------------------------------------ claims C31..C39
\* A session whose owner has called start and then send_request twice: two
\* requests are outstanding and nothing was read.
InitPipelined ==
  /\ entry = "owner" /\ nfiles = 0
  /\ cur = NoFile /\ nsites = 0
  /\ pc = "ready"
  /\ process = spawned(NoChild)
  /\ next_id = FirstId + 2
  /\ stdin = <<Request(FirstId, "definition", 0, 0), Request(FirstId + 1, "definition", 0, 0)>>
  /\ stdout = <<>> /\ broken = FALSE /\ closed = FALSE /\ noise = 0 /\ responded = {}
  /\ wait_id = 0 /\ skipped = <<>> /\ answered = {} /\ last = NoOutcome
  /\ fileIdx = 1 /\ callIdx = 1 /\ results = <<>> /\ ret = "none" /\ ops = 0
  /\ log = {} /\ attempt = 0 /\ slept = <<>> /\ stderr = NoPipe
  /\ FrameIdle
  /\ WalkIdle
NextPipelined == ApiReadResponseWithId \/ ApiReadWait \/ Server
\* The owner of a session with two requests outstanding collects the
\* responses with read_response_with_id, in any order, against a server.
SpecPipelined == InitPipelined /\ [][NextPipelined]_vars

\* The response to the request at position i of stdin was written by the
\* server, read by the client and not handed to a caller: it was skipped.
Discarded(i) ==
  /\ i \in responded /\ i \notin answered
  /\ \A k \in 1..Len(stdout) : stdout[k].re # i

\* C31: a response that was read and skipped while the caller waited for
\* another id is gone for good: no later read_response_with_id, for its id
\* or any other, hands it to a caller.
C31_DiscardedForGood ==
  [][\A i \in 1..Len(stdin) : Discarded(i) => Discarded(i)']_vars
\* With requests 1 and 2 outstanding the caller waited for 2 first and got
\* it, the response to 1 was read and skipped during that wait, and the
\* caller now waits for 1.
C31_Witness ==
  /\ Discarded(1) /\ 2 \in answered
  /\ pc = "api_read_wait" /\ wait_id = 1

\* What the server may send ahead of a response: notifications and
\* messages that carry another id than the awaited one.
SrvUnrelated ==
  /\ Listening
  /\ noise < MaxNoise
  /\ \E m \in NoiseFrames :
       /\ read_response(m).ok /\ m.id # U64Id(wait_id)
       /\ stdout' = Append(stdout, m)
  /\ noise' = noise + 1
  /\ UNCHANGED <<inputVars, batchVars, pc, process, next_id, stdin, broken, closed, responded,
                 readVars, loopVars, ret, ops>>
NextAwait ==
  ApiStart \/ ApiSendRequest \/ ApiRequest \/ ApiRequestWait \/ SrvRespond \/ SrvUnrelated
\* request() on a session whose server stays up and answers every request
\* in the end, in any order and after any unrelated messages. The owner's
\* thread runs: request() blocks in read_response and goes on as soon as
\* the stream has a frame for it (lsp.rs:182-199).
SpecAwait ==
  InitOwner /\ [][NextAwait]_vars /\ WF_vars(ApiRequestWait) /\ WF_vars(SrvRespond)

\* request() returned the outcome of a response to the request it sent.
AwaitedReturned ==
  /\ pc = "ready" /\ last # NoOutcome
  /\ read_response(last.resp).ok
  /\ last.resp.id = U64Id(wait_id) /\ last.resp.method = ""
  /\ last.resp.re # 0 /\ stdin[last.resp.re].id = wait_id
  /\ IF last.resp.error.k # "absent" THEN last.k = "err" /\ last.why = "lsp"
     ELSE IF last.resp.result.k = "absent" THEN last.k = "err" /\ last.why = "missing_result"
     ELSE IF ~Deserializes("definition", last.resp.result)
       THEN last.k = "err" /\ last.why = "deserialize"
     ELSE last.k = "ok" /\ last.result = last.resp.result

\* C32: when the server sends a well-formed response carrying the awaited
\* id in the end, request() returns that response's outcome, whatever
\* notifications and messages with other ids the server sends before it.
C32_AwaitedIsReturned == (pc = "api_request_wait") ~> AwaitedReturned
\* request() returned the outcome of the awaited response after skipping
\* a message that came before it.
C32_Witness == AwaitedReturned /\ skipped # <<>>

\* next() is called on an iterator that has returned None: `again` is that
\* iterator, with what it yields from then on.
PullAfterEnd ==
  /\ walk.done
  /\ \E it \in {IF again = NoWalk THEN [walk EXCEPT !.calls = <<>>] ELSE again} :
       /\ Len(it.calls) <= Size(tree)
       /\ again' = Pulled(tree, it)
  /\ UNCHANGED <<msgVars, frameVars, stderr, tree, walk, sent>>
NextFused == GetCalls \/ Collect \/ PullAfterEnd
\* One get_calls whose iterator is pulled on after it reported the end.
SpecFused == InitWalk /\ [][NextFused]_vars

\* C33: once the iterator of one get_calls has returned None, every
\* further next() on it returns None again and yields no call site.
C33_EndIsFinal == again # NoWalk => (again.done /\ again.calls = <<>>)

\* LspServer::start spawns a child on which kill will fail: every
\* LspServer::stop on the session returns Err (lsp.rs:245-248).
start_kill_fails ==
  /\ pc = "start"
  /\ process' = [spawned(process) EXCEPT !.killable = FALSE]
  /\ next_id' = FirstId
  /\ pc' = "init_send"
  /\ UNCHANGED <<inputVars, batchVars, stdin, broken, serverVars, readVars, loopVars, ret, ops>>
NextTeardown ==
  \/ StartFails \/ start_kill_fails \/ InitSend \/ InitWait \/ InitNotify \/ ReadAtEof
  \/ SrvRespond \/ SrvExit \/ SrvEof \/ Resolver
\* start_and_init, and find_all_call_targets, with a server process that
\* cannot be killed.
SpecTeardown == InitAll /\ [][NextTeardown]_vars

\* stop was called, and every call of it failed.
TeardownFailed == process.stops >= 1 /\ process.waits = 0

\* C34: when the teardown fails, the function returns what it would have
\* returned: the error of the operation that failed (a handshake failure
\* in start_and_init among them), and after the last file of
\* find_all_call_targets the collected results.
C34_TeardownErrorOnlyLogged ==
  [][(pc # "returned" /\ pc' = "returned" /\ TeardownFailed')
       => /\ results' = results
          /\ ret' = IF pc = "next_file" /\ fileIdx > nfiles THEN "ok" ELSE "err"
          /\ (pc \in {"init_send", "init_wait"} => last'.k = "err")]_vars
\* start_and_init returned the error of the initialize request after a stop
\* that failed.
C34_Witness ==
  /\ entry = "session" /\ pc = "returned" /\ TeardownFailed
  /\ ret = "err" /\ last.k = "err" /\ last.why = "lsp"
\* find_all_call_targets returned its results after a final stop that failed.
C34_WitnessResults ==
  /\ entry = "resolver" /\ pc = "returned" /\ TeardownFailed
  /\ ret = "ok" /\ results # <<>>

\* The step wrote a notification to the server's stdin.
NotificationWritten ==
  /\ Len(stdin') = Len(stdin) + 1
  /\ stdin'[Len(stdin')].kind = "notification"
\* The keys of the members of a JSON object.
Keys(obj) == {obj.o[k].key : k \in 1..Len(obj.o)}

\* C35: sending a notification leaves the request-id counter as it was,
\* writes a message without an id member, and reads nothing: the response
\* stream and what the read loop holds are unchanged.
C35_NotificationFrameEffect ==
  [][NotificationWritten
       => /\ next_id' = next_id
          /\ stdout' = stdout
          /\ <<wait_id, skipped, answered, last>>' = <<wait_id, skipped, answered, last>>
          /\ \A text \in Texts :
               <<"i", "d">> \notin Keys(notification_json(<<"e", "x", "i", "t">>, Str(text)))]_vars
\* A notification was written right after a request: the counter is still
\* the request's id plus one.
C35_Witness ==
  /\ entry = "owner" /\ pc = "ready" /\ Len(stdin) >= 2
  /\ stdin[Len(stdin)].kind = "notification" /\ stdin[Len(stdin) - 1].kind = "request"
  /\ next_id = stdin[Len(stdin) - 1].id + 1

\* C36: after a successful read_response the stream stands at the first
\* byte after the frame: what was consumed is the header block, its other
\* fields and its empty line included, and the Content-Length bytes of the
\* payload; what followed the frame is all still there.
C36_PositionAfterFrame ==
  (rpc = "done" /\ returned.k = "ok")
    => /\ bytes = trailing
       /\ Len(buffer) = content_length
       /\ returned.v = value
\* A frame with another header field after its Content-Length line was
\* read, and the frame behind it is what the stream holds.
C36_Witness ==
  /\ rpc = "done" /\ returned.k = "ok" /\ scenario = "extra"
  /\ trailing # <<>> /\ bytes = trailing

\* C37: the message request() takes for the response to the request it
\* sent is a response to it: a message that carries a method (a request of
\* the server's own) is not taken, whatever id it carries.
C37_TakenIsAResponse ==
  (pc = "ready" /\ last.k \in {"ok", "err"} /\ last.resp.t = "msg")
    => /\ last.resp.method = ""
       /\ last.resp.re # 0 /\ stdin[last.resp.re].id = wait_id

\* C38: when discovery returns no file, find_all_call_targets and
\* process_files return an empty result: no process is spawned and no
\* message is written.
C38_NoFilesNoServer ==
  (entry \in {"resolver", "references"} /\ nfiles = 0)
    => /\ process = NoChild /\ stdin = <<>>
       /\ results = <<>>
       /\ pc \in {"begin", "returned"}
       /\ (pc = "returned" => ret = "ok")
\* process_files returned on a project without a file of the language.
C38_Witness ==
  /\ entry = "references" /\ nfiles = 0 /\ pc = "returned" /\ ret = "ok"
  /\ process.spawns = 0 /\ stdin = <<>>

\* request() is called for the current symbol of find-references.
AttemptMade == entry = "references" /\ pc = "symbol" /\ next_id' = next_id + 1
\* request() returns to the retry loop of find-references: after a
\* response was read, or at once when the write failed.
AttemptReturns ==
  /\ entry = "references"
  /\ \/ pc = "symbol_wait" /\ pc' = "symbol"
     \/ AttemptMade /\ pc' = "symbol"

\* C39: in the retry loop of find-references an attempt that returns a
\* non-empty result or an error is the symbol's last (an error is not
\* retried); a symbol is left only after an attempt, and gets at most 3;
\* every attempt takes a fresh id, larger than every id used before.
C39_AttemptsStop ==
  [][/\ AttemptMade
          => /\ attempt < 3 /\ Attempts(fileIdx, callIdx) = attempt
             /\ \A i \in 1..Len(stdin) : stdin[i].kind = "request" => stdin[i].id < next_id
             /\ Len(stdin') > Len(stdin) => stdin'[Len(stdin')].id = next_id
     /\ AttemptReturns
          => IF last'.k = "err" \/ (last'.k = "ok" /\ last'.result.k = "def")
               THEN callIdx' = callIdx + 1 /\ attempt' = 0
               ELSE last'.k = "ok"
     /\ (entry = "references" /\ pc \in {"symbol", "symbol_wait"} /\ callIdx' # callIdx)
          => AttemptReturns]_vars
\* The second attempt for the first symbol of a file returned an error and
\* the loop went on to the second symbol: two requests were sent.
C39_Witness ==
  /\ entry = "references" /\ pc = "symbol" /\ callIdx = 2 /\ attempt = 0
  /\ Attempts(fileIdx, 1) = 2 /\ last.k = "err"

====
